---- MODULE Spec2Model ----
(***************************************************************************)
(* A model of the falling-block game: Piece (js/pieces.js), GameBoard      *)
(* (board.js), TetrisGame (js/tetris.js) and InputHandler (js/input.js),  *)
(* with the part of the browser they use: the clock, the timers, the       *)
(* animation-frame callbacks, the document's listeners and the keyboard.   *)
(*                                                                         *)
(* Arrays are functions over 0..n-1, so that every index is the index the  *)
(* code uses.  Times are kept in units of 1/TimeScale ms: the drop         *)
(* interval (frames / 60) * 1000 ms is then the integer frames * 50.       *)
(***************************************************************************)
EXTENDS Integers, Sequences, FiniteSets, TLC

VARIABLES
    grid,            \* GameBoard.grid: grid[y][x], row 0 on top
    linesToFlash,    \* GameBoard.linesToFlash
    currentPiece,    \* TetrisGame.currentPiece
    nextPiece,       \* TetrisGame.nextPiece
    isRunning,
    isPaused,
    isGameOver,
    score,
    lines,
    level,
    combo,
    dropTimer,
    dropInterval,
    lockTimer,
    isLocking,
    lineFlashTimer,
    pendingFrames,   \* animation-frame callbacks requested and not yet run
    lastTime,        \* TetrisGame.lastTime
    animationId,     \* TetrisGame.animationId: NULL, or whether the callback it names is
                     \* still queued or no more (run or cancelled)
    input,           \* TetrisGame.input: keysPressed, keyDelayTimers, keyRepeatTimers
    browser,         \* now: performance.now(); timers: the armed timers; nextTimerId;
                     \* listeners: the document's key listeners; held: the keys held down
    destroyed,       \* TetrisGame.destroy() has returned
    last,            \* the operation that produced this state, its inputs, the state before it
    steps            \* operations applied so far

vars == <<grid, linesToFlash, currentPiece, nextPiece, isRunning, isPaused, isGameOver,
          score, lines, level, combo, dropTimer, dropInterval, lockTimer, isLocking,
          lineFlashTimer, pendingFrames, lastTime, animationId, input, browser,
          destroyed, last, steps>>

-----------------------------------------------------------------------------
(* Program constants *)

Width == 10
Height == 20
ShapeSize == 4
TimeScale == 3
lockDelay == 500 * TimeScale
lineFlashDuration == 300 * TimeScale

NULL == "null"

(* Bounds of the model *)

\* operations applied in one behaviour of Spec
MaxSteps == 2
\* the piece types, in the order of PIECE_TYPES, that a random draw yields in the model
MaxDrawn == 2
\* rows of the stack drawn freely in the inputs of SpecBoard
MaxStackRows == 3
\* rotate() calls counted from one starting piece in SpecPiece
MaxTurns == 4
\* calls made on one input in SpecBoard
MaxCalls == 2

-----------------------------------------------------------------------------
(* Arrays *)

\* a JS array literal: the tuple's elements at indices 0..n-1
Arr(seq) == [i \in 0..(Len(seq) - 1) |-> seq[i + 1]]

ArrLen(a) == Cardinality(DOMAIN a)

Abs(n) == IF n < 0 THEN -n ELSE n

Max(a, b) == IF a >= b THEN a ELSE b

-----------------------------------------------------------------------------
(* js/pieces.js *)

PIECES ==
    [ I |-> [ shape |-> Arr(<< Arr(<<0, 0, 0, 0>>), Arr(<<1, 1, 1, 1>>),
                               Arr(<<0, 0, 0, 0>>), Arr(<<0, 0, 0, 0>>) >>),
              color |-> "#00ffff", spawn |-> [x |-> 3, y |-> 0] ],
      O |-> [ shape |-> Arr(<< Arr(<<0, 1, 1, 0>>), Arr(<<0, 1, 1, 0>>),
                               Arr(<<0, 0, 0, 0>>), Arr(<<0, 0, 0, 0>>) >>),
              color |-> "#ffff00", spawn |-> [x |-> 4, y |-> 0] ],
      T |-> [ shape |-> Arr(<< Arr(<<0, 1, 0, 0>>), Arr(<<1, 1, 1, 0>>),
                               Arr(<<0, 0, 0, 0>>), Arr(<<0, 0, 0, 0>>) >>),
              color |-> "#aa00ff", spawn |-> [x |-> 3, y |-> 0] ],
      S |-> [ shape |-> Arr(<< Arr(<<0, 1, 1, 0>>), Arr(<<1, 1, 0, 0>>),
                               Arr(<<0, 0, 0, 0>>), Arr(<<0, 0, 0, 0>>) >>),
              color |-> "#00ff00", spawn |-> [x |-> 3, y |-> 0] ],
      Z |-> [ shape |-> Arr(<< Arr(<<1, 1, 0, 0>>), Arr(<<0, 1, 1, 0>>),
                               Arr(<<0, 0, 0, 0>>), Arr(<<0, 0, 0, 0>>) >>),
              color |-> "#ff0000", spawn |-> [x |-> 3, y |-> 0] ],
      J |-> [ shape |-> Arr(<< Arr(<<1, 0, 0, 0>>), Arr(<<1, 1, 1, 0>>),
                               Arr(<<0, 0, 0, 0>>), Arr(<<0, 0, 0, 0>>) >>),
              color |-> "#0000ff", spawn |-> [x |-> 3, y |-> 0] ],
      L |-> [ shape |-> Arr(<< Arr(<<0, 0, 1, 0>>), Arr(<<1, 1, 1, 0>>),
                               Arr(<<0, 0, 0, 0>>), Arr(<<0, 0, 0, 0>>) >>),
              color |-> "#ff7f00", spawn |-> [x |-> 3, y |-> 0] ] ]

PIECE_TYPES == <<"I", "O", "T", "S", "Z", "J", "L">>

\* the values Piece.getRandomType() returns: PIECE_TYPES[floor(random() * length)], the
\* draws of the model being kept to the first MaxDrawn types
RandomTypes ==
    {PIECE_TYPES[i] : i \in 1..(IF MaxDrawn < Len(PIECE_TYPES) THEN MaxDrawn
                                                              ELSE Len(PIECE_TYPES))}

\* every value Piece.getRandomType() can return
AllTypes == {PIECE_TYPES[i] : i \in 1..Len(PIECE_TYPES)}

\* new Piece(type, x, y)
Piece(type, x, y) ==
    [ type |-> type, shape |-> PIECES[type].shape, color |-> PIECES[type].color,
      x |-> x, y |-> y, rotation |-> 0 ]

\* new Piece(type): x and y undefined, so the spawn offset is taken
NewPiece(type) == Piece(type, PIECES[type].spawn.x, PIECES[type].spawn.y)

\* a plausible slip: the rotation state is not wrapped
rotateUnwrapped(p) ==
    [ p EXCEPT !.shape = [r \in 0..(ShapeSize - 1) |->
                             [c \in 0..(ShapeSize - 1) |-> p.shape[ShapeSize - 1 - c][r]]],
               !.rotation = p.rotation + 1 ]

\* Piece.rotate: rotated[x][size - 1 - y] = shape[y][x], so rotated[r][c] = shape[size - 1 - c][r]
rotate(p) ==
    [ p EXCEPT !.shape = [r \in 0..(ShapeSize - 1) |->
                             [c \in 0..(ShapeSize - 1) |-> p.shape[ShapeSize - 1 - c][r]]],
               !.rotation = (p.rotation + 1) % 4 ]

wallKickData ==
    [ I |-> [ t01 |-> << <<-2, 0>>, <<1, 0>>, <<-2, -1>>, <<1, 2>> >>,
              t10 |-> << <<2, 0>>, <<-1, 0>>, <<2, 1>>, <<-1, -2>> >>,
              t12 |-> << <<-1, 0>>, <<2, 0>>, <<-1, 2>>, <<2, -1>> >>,
              t21 |-> << <<1, 0>>, <<-2, 0>>, <<1, -2>>, <<-2, 1>> >>,
              t23 |-> << <<2, 0>>, <<-1, 0>>, <<2, 1>>, <<-1, -2>> >>,
              t32 |-> << <<-2, 0>>, <<1, 0>>, <<-2, -1>>, <<1, 2>> >>,
              t30 |-> << <<1, 0>>, <<-2, 0>>, <<1, -2>>, <<-2, 1>> >>,
              t03 |-> << <<-1, 0>>, <<2, 0>>, <<-1, 2>>, <<2, -1>> >> ],
      JLSTZ |-> [ t01 |-> << <<-1, 0>>, <<-1, 1>>, <<0, -2>>, <<-1, -2>> >>,
                  t10 |-> << <<1, 0>>, <<1, -1>>, <<0, 2>>, <<1, 2>> >>,
                  t12 |-> << <<1, 0>>, <<1, -1>>, <<0, 2>>, <<1, 2>> >>,
                  t21 |-> << <<-1, 0>>, <<-1, 1>>, <<0, -2>>, <<-1, -2>> >>,
                  t23 |-> << <<1, 0>>, <<1, 1>>, <<0, -2>>, <<1, -2>> >>,
                  t32 |-> << <<-1, 0>>, <<-1, -1>>, <<0, 2>>, <<-1, 2>> >>,
                  t30 |-> << <<-1, 0>>, <<-1, -1>>, <<0, 2>>, <<-1, 2>> >>,
                  t03 |-> << <<1, 0>>, <<1, 1>>, <<0, -2>>, <<1, -2>> >> ] ]

\* the key `${from}->${to}` of the kick table, or "none" when the table has no such key
kickKey(from, to) ==
    CASE from = 0 /\ to = 1 -> "t01"
      [] from = 1 /\ to = 0 -> "t10"
      [] from = 1 /\ to = 2 -> "t12"
      [] from = 2 /\ to = 1 -> "t21"
      [] from = 2 /\ to = 3 -> "t23"
      [] from = 3 /\ to = 2 -> "t32"
      [] from = 3 /\ to = 0 -> "t30"
      [] from = 0 /\ to = 3 -> "t03"
      [] OTHER -> "none"

\* Piece.getWallKickOffsets
getWallKickOffsets(p, from, to) ==
    LET key == kickKey(from, to)
    IN  IF p.type = "I"
        THEN IF key = "none" THEN << <<0, 0>> >> ELSE wallKickData.I[key]
        ELSE IF p.type # "O"
             THEN IF key = "none" THEN << <<0, 0>> >> ELSE wallKickData.JLSTZ[key]
             ELSE << <<0, 0>> >>

\* Piece.copy: a new Piece of the type at (x, y), then the mask and the rotation state
copy(p) ==
    [ Piece(p.type, p.x, p.y) EXCEPT !.shape = p.shape, !.rotation = p.rotation ]

\* the positions pushed while the loops of getOccupiedPositions run over cells 0..k-1,
\* cell k being (y, x) = (k \div size, k % size)
RECURSIVE positionsUpTo(_, _)
positionsUpTo(p, k) ==
    IF k = 0
    THEN << >>
    ELSE LET y == (k - 1) \div ShapeSize
             x == (k - 1) % ShapeSize
             before == positionsUpTo(p, k - 1)
         IN  IF p.shape[y][x] # 0
             THEN Append(before, [x |-> p.x + x, y |-> p.y + y])
             ELSE before

\* Piece.getOccupiedPositions
getOccupiedPositions(p) == positionsUpTo(p, ShapeSize * ShapeSize)

-----------------------------------------------------------------------------
(* board.js *)

EmptyRow == [x \in 0..(Width - 1) |-> NULL]

\* the grid of the GameBoard constructor and of reset()
EmptyGrid == [y \in 0..(Height - 1) |-> EmptyRow]

\* a plausible slip: cells above the visible area are refused
canPlaceFromNoCeiling(g, positions, offsetX, offsetY, i) ==
    \A k \in i..Len(positions) :
        LET newX == positions[k].x + offsetX
            newY == positions[k].y + offsetY
        IN  /\ newX >= 0 /\ newX < Width
            /\ newY >= 0 /\ newY < Height
            /\ g[newY][newX] = NULL

\* the loop of canPlacePiece from the i-th position on: false at the first position out
\* of bounds or on an occupied cell, true when the positions are exhausted
RECURSIVE canPlaceFrom(_, _, _, _, _)
canPlaceFrom(g, positions, offsetX, offsetY, i) ==
    IF i > Len(positions)
    THEN TRUE
    ELSE LET newX == positions[i].x + offsetX
             newY == positions[i].y + offsetY
         IN  IF newX < 0 \/ newX >= Width \/ newY >= Height
             THEN FALSE
             ELSE IF newY >= 0 /\ g[newY][newX] # NULL
                  THEN FALSE
                  ELSE canPlaceFrom(g, positions, offsetX, offsetY, i + 1)

\* GameBoard.canPlacePiece
canPlacePiece(g, p, offsetX, offsetY) ==
    canPlaceFrom(g, getOccupiedPositions(p), offsetX, offsetY, 1)

\* the loop of placePiece from the i-th position on
RECURSIVE placeFrom(_, _, _, _)
placeFrom(g, positions, color, i) ==
    IF i > Len(positions)
    THEN g
    ELSE LET pos == positions[i]
         IN  IF pos.y >= 0 /\ pos.y < Height /\ pos.x >= 0 /\ pos.x < Width
             THEN placeFrom([g EXCEPT ![pos.y][pos.x] = color], positions, color, i + 1)
             ELSE placeFrom(g, positions, color, i + 1)

\* GameBoard.placePiece
placePiece(g, p) == placeFrom(g, getOccupiedPositions(p), p.color, 1)

\* grid[y].every(cell => cell !== null)
rowComplete(g, y) == \A x \in DOMAIN g[y] : g[y][x] # NULL

\* the first loop of clearLines over rows 0..n-1: the complete rows, ascending
RECURSIVE completedUpTo(_, _)
completedUpTo(g, n) ==
    IF n = 0
    THEN << >>
    ELSE IF rowComplete(g, n - 1)
         THEN Append(completedUpTo(g, n - 1), n - 1)
         ELSE completedUpTo(g, n - 1)

\* Array.prototype.splice(lineY, 1): the row at lineY is removed, the later ones move up
splice(g, lineY) ==
    [i \in 0..(ArrLen(g) - 2) |-> IF i < lineY THEN g[i] ELSE g[i + 1]]

\* Array.prototype.unshift(row): row becomes index 0, the others move down
unshift(g, row) ==
    [i \in 0..ArrLen(g) |-> IF i = 0 THEN row ELSE g[i - 1]]

\* a plausible slip: the completed rows are removed bottom-up, so that every removal
\* moves the rows still to be removed
removeLinesDescending(g, completed, i) ==
    LET RECURSIVE down(_, _)
        down(h, k) ==
            IF k < i THEN h
            ELSE down(unshift(splice(h, completed[k]), EmptyRow), k - 1)
    IN  down(g, Len(completed))

\* completedLines.forEach from the i-th completed row on: splice, then unshift
RECURSIVE removeLines(_, _, _)
removeLines(g, completed, i) ==
    IF i > Len(completed)
    THEN g
    ELSE removeLines(unshift(splice(g, completed[i]), EmptyRow), completed, i + 1)

\* GameBoard.clearLines on a board [grid, linesToFlash]: the board after it and the
\* number returned
clearLines(b) ==
    LET completedLines == completedUpTo(b.grid, Height)
    IN  IF Len(completedLines) = 0
        THEN [grid |-> b.grid, linesToFlash |-> b.linesToFlash, returned |-> 0]
        ELSE [grid |-> removeLines(b.grid, completedLines, 1),
              linesToFlash |-> completedLines,
              returned |-> Len(completedLines)]

\* GameBoard.isGameOver: grid[0].some(cell => cell !== null)
boardIsGameOver(g) == \E x \in DOMAIN g[0] : g[0][x] # NULL

\* the while loop of getDropPosition, entered with dropY
RECURSIVE dropFrom(_, _, _)
dropFrom(g, p, dropY) ==
    IF canPlacePiece(g, p, 0, dropY - p.y + 1)
    THEN dropFrom(g, p, dropY + 1)
    ELSE dropY

\* a plausible slip: the row returned is the first one probed at which the piece does
\* not fit
getDropPositionPastLanding(g, p) == dropFrom(g, p, p.y) + 1

\* GameBoard.getDropPosition
getDropPosition(g, p) == dropFrom(g, p, p.y)

-----------------------------------------------------------------------------
(* The browser as the game uses it, and the methods of js/input.js that do not call the  *)
(* game.  The browser is a record: now is what performance.now() returns, timers the     *)
(* armed timers (setTimeout and setInterval draw their ids from nextTimerId), listeners  *)
(* the key listeners of the document, held the keys that are physically down.  A Map is  *)
(* a function on the keys it has.                                                        *)

\* the browser when the page has loaded
PageLoaded ==
    [now |-> 1000 * TimeScale, timers |-> {}, nextTimerId |-> 1, listeners |-> {},
     held |-> {}]

\* performance.now() in the sessions in progress
PlayTime == 60000 * TimeScale

\* method.bind(this) evaluated in the method site: every evaluation is a new function
bind(method, site) == [method |-> method, boundIn |-> site]

\* document.addEventListener(type, fn), document.removeEventListener(type, fn)
addEventListener(b, type, fn) ==
    [b EXCEPT !.listeners = @ \cup {[type |-> type, fn |-> fn]}]

removeEventListener(b, type, fn) ==
    [b EXCEPT !.listeners = @ \ {[type |-> type, fn |-> fn]}]

\* setTimeout and setInterval with the callbacks of handleKeyDown for key; the id
\* returned is b.nextTimerId
setTimeout(b, key) ==
    [b EXCEPT !.timers = @ \cup {[kind |-> "timeout", key |-> key, id |-> b.nextTimerId]},
              !.nextTimerId = @ + 1]

setInterval(b, key) ==
    [b EXCEPT !.timers = @ \cup {[kind |-> "interval", key |-> key, id |-> b.nextTimerId]},
              !.nextTimerId = @ + 1]

\* clearTimeout(id), clearInterval(id)
clearTimeout(b, id) == [b EXCEPT !.timers = {t \in @ : t.id # id}]

clearInterval(b, id) == [b EXCEPT !.timers = {t \in @ : t.id # id}]

\* new Map(), map.set(k, v), map.delete(k)
EmptyMap == [k \in {} |-> 0]

MapSet(m, k, v) == [x \in DOMAIN m \cup {k} |-> IF x = k THEN v ELSE m[x]]

MapDelete(m, k) == [x \in DOMAIN m \ {k} |-> m[x]]

\* map.forEach(timer => clearTimeout(timer)), the same with clearInterval
clearEach(b, m) == [b EXCEPT !.timers = {t \in @ : \A k \in DOMAIN m : m[k] # t.id}]

\* the fields the InputHandler constructor sets
InputHandler ==
    [keysPressed |-> {}, keyRepeatTimers |-> EmptyMap, keyDelayTimers |-> EmptyMap]

\* InputHandler.setupEventListeners
setupEventListeners(b) ==
    addEventListener(
        addEventListener(b, "keydown", bind("handleKeyDown", "setupEventListeners")),
        "keyup", bind("handleKeyUp", "setupEventListeners"))

\* InputHandler.handleKeyUp
handleKeyUp(s, key) ==
    LET i == s.input
        b1 == IF key \in DOMAIN i.keyDelayTimers
              THEN clearTimeout(s.browser, i.keyDelayTimers[key])
              ELSE s.browser
        b2 == IF key \in DOMAIN i.keyRepeatTimers
              THEN clearInterval(b1, i.keyRepeatTimers[key])
              ELSE b1
    IN  [s EXCEPT !.input = [keysPressed |-> i.keysPressed \ {key},
                             keyDelayTimers |-> MapDelete(i.keyDelayTimers, key),
                             keyRepeatTimers |-> MapDelete(i.keyRepeatTimers, key)],
                  !.browser = b2]

\* InputHandler.reset
inputReset(s) ==
    [s EXCEPT !.input = [keysPressed |-> {}, keyDelayTimers |-> EmptyMap,
                         keyRepeatTimers |-> EmptyMap],
              !.browser = clearEach(clearEach(s.browser, s.input.keyDelayTimers),
                                    s.input.keyRepeatTimers)]

\* InputHandler.destroy
inputDestroy(s) ==
    LET b == clearEach(clearEach(s.browser, s.input.keyDelayTimers),
                       s.input.keyRepeatTimers)
    IN  [s EXCEPT !.input.keyDelayTimers = EmptyMap,
                  !.input.keyRepeatTimers = EmptyMap,
                  !.browser =
                      removeEventListener(
                          removeEventListener(b, "keydown",
                                              bind("handleKeyDown", "destroy")),
                          "keyup", bind("handleKeyUp", "destroy"))]

\* requestAnimationFrame(() => this.gameLoop()) with the id kept in animationId, and
\* cancelAnimationFrame(this.animationId)
requestAnimationFrame(s) ==
    [s EXCEPT !.pendingFrames = @ + 1, !.animationId = "queued"]

cancelAnimationFrame(s) ==
    IF s.animationId = "queued"
    THEN [s EXCEPT !.pendingFrames = @ - 1, !.animationId = "stale"]
    ELSE s

-----------------------------------------------------------------------------
(* js/tetris.js: every method is an operator from the TetrisGame (with its board) before *)
(* the call, as a record of the fields, to the TetrisGame after it.  A piece type drawn  *)
(* by Piece.getRandomType() during the call is a parameter.                              *)

\* TetrisGame.getLevelDropInterval: max(1, 48 - (level - 1) * 5) frames, (frames / 60) * 1000 ms
getLevelDropInterval(lvl) ==
    LET frames == Max(1, 48 - (lvl - 1) * 5)
    IN  (frames * 1000 * TimeScale) \div 60

\* a plausible slip: every call starts the countdown afresh
startLockingAfresh(s) == [s EXCEPT !.isLocking = TRUE, !.lockTimer = lockDelay]

\* TetrisGame.startLocking
startLocking(s) ==
    IF ~s.isLocking
    THEN [s EXCEPT !.isLocking = TRUE, !.lockTimer = lockDelay]
    ELSE s

\* a plausible slip: the countdown is stopped but its time is kept
resetLockTimerKeepingTime(s) == [s EXCEPT !.isLocking = FALSE]

\* TetrisGame.resetLockTimer
resetLockTimer(s) == [s EXCEPT !.isLocking = FALSE, !.lockTimer = 0]

\* TetrisGame.generateNextPiece, type being the random type drawn
generateNextPiece(s, type) == [s EXCEPT !.nextPiece = NewPiece(type)]

\* TetrisGame.spawnNewPiece
spawnNewPiece(s, type) ==
    generateNextPiece([s EXCEPT !.currentPiece = s.nextPiece], type)

\* a plausible slip: the game that is over is left running
gameOverStillRunning(s) == [s EXCEPT !.isGameOver = TRUE]

\* TetrisGame.gameOver
gameOver(s) == [s EXCEPT !.isGameOver = TRUE, !.isRunning = FALSE]

\* the table of handleLinesCleared
baseScores == Arr(<<0, 40, 100, 300, 1200>>)

\* a plausible slip: the level is raised before the clear is scored
handleLinesClearedLevelFirst(s, linesCleared) ==
    LET s1 == [s EXCEPT !.lines = s.lines + linesCleared, !.combo = s.combo + 1]
        newLevel == (s1.lines \div 10) + 1
        s2 == IF newLevel > s1.level
              THEN [s1 EXCEPT !.level = newLevel,
                              !.dropInterval = getLevelDropInterval(newLevel)]
              ELSE s1
        base == baseScores[linesCleared] * s2.level
        lineScore == IF s2.combo > 1 THEN base + 50 * s2.combo * s2.level ELSE base
    IN  [s2 EXCEPT !.score = s2.score + lineScore]

\* a plausible slip: the drop interval is not recomputed when the level rises
handleLinesClearedStaleInterval(s, linesCleared) ==
    LET s1 == [s EXCEPT !.lines = s.lines + linesCleared, !.combo = s.combo + 1]
        base == baseScores[linesCleared] * s1.level
        lineScore == IF s1.combo > 1 THEN base + 50 * s1.combo * s1.level ELSE base
        s2 == [s1 EXCEPT !.score = s1.score + lineScore]
        newLevel == (s2.lines \div 10) + 1
    IN  IF newLevel > s2.level THEN [s2 EXCEPT !.level = newLevel] ELSE s2

\* TetrisGame.handleLinesCleared
handleLinesCleared(s, linesCleared) ==
    LET s1 == [s EXCEPT !.lines = s.lines + linesCleared, !.combo = s.combo + 1]
        base == baseScores[linesCleared] * s1.level
        lineScore == IF s1.combo > 1 THEN base + 50 * s1.combo * s1.level ELSE base
        s2 == [s1 EXCEPT !.score = s1.score + lineScore]
        newLevel == (s2.lines \div 10) + 1
    IN  IF newLevel > s2.level
        THEN [s2 EXCEPT !.level = newLevel, !.dropInterval = getLevelDropInterval(newLevel)]
        ELSE s2

\* a plausible slip: a lock that clears nothing leaves the combo counter alone
lockPieceKeepingCombo(s, type) ==
    LET placed == placePiece(s.grid, s.currentPiece)
        cleared == clearLines([grid |-> placed, linesToFlash |-> s.linesToFlash])
        s1 == [s EXCEPT !.grid = cleared.grid, !.linesToFlash = cleared.linesToFlash]
        s2 == IF cleared.returned > 0
              THEN [handleLinesCleared(s1, cleared.returned)
                        EXCEPT !.lineFlashTimer = lineFlashDuration]
              ELSE s1
        s3 == spawnNewPiece(resetLockTimer(s2), type)
    IN  IF boardIsGameOver(s3.grid) \/ ~canPlacePiece(s3.grid, s3.currentPiece, 0, 0)
        THEN gameOver(s3)
        ELSE s3

\* a plausible slip: only the top row decides the end of the game
lockPieceTopRowOnly(s, type) ==
    LET placed == placePiece(s.grid, s.currentPiece)
        cleared == clearLines([grid |-> placed, linesToFlash |-> s.linesToFlash])
        s1 == [s EXCEPT !.grid = cleared.grid, !.linesToFlash = cleared.linesToFlash]
        s2 == IF cleared.returned > 0
              THEN [handleLinesCleared(s1, cleared.returned)
                        EXCEPT !.lineFlashTimer = lineFlashDuration]
              ELSE [s1 EXCEPT !.combo = 0]
        s3 == spawnNewPiece(resetLockTimer(s2), type)
    IN  IF boardIsGameOver(s3.grid) THEN gameOver(s3) ELSE s3

\* TetrisGame.lockPiece, type being the random type drawn for the new next piece
lockPiece(s, type) ==
    LET placed == placePiece(s.grid, s.currentPiece)
        cleared == clearLines([grid |-> placed, linesToFlash |-> s.linesToFlash])
        s1 == [s EXCEPT !.grid = cleared.grid, !.linesToFlash = cleared.linesToFlash]
        s2 == IF cleared.returned > 0
              THEN [handleLinesCleared(s1, cleared.returned)
                        EXCEPT !.lineFlashTimer = lineFlashDuration]
              ELSE [s1 EXCEPT !.combo = 0]
        s3 == spawnNewPiece(resetLockTimer(s2), type)
    IN  IF boardIsGameOver(s3.grid) \/ ~canPlacePiece(s3.grid, s3.currentPiece, 0, 0)
        THEN gameOver(s3)
        ELSE s3

\* a plausible slip: every downward move starts the lock countdown
moveCurrentPieceLockingEveryDrop(s, dx, dy) ==
    IF s.isGameOver
    THEN [game |-> s, returned |-> FALSE]
    ELSE IF canPlacePiece(s.grid, s.currentPiece, dx, dy)
         THEN LET s1 == [s EXCEPT !.currentPiece.x = s.currentPiece.x + dx,
                                  !.currentPiece.y = s.currentPiece.y + dy]
                  s2 == IF dx # 0 THEN resetLockTimer(s1) ELSE s1
                  s3 == IF dy > 0 THEN startLocking(s2) ELSE s2
              IN  [game |-> s3, returned |-> TRUE]
         ELSE IF dy > 0
              THEN [game |-> startLocking(s), returned |-> FALSE]
              ELSE [game |-> s, returned |-> FALSE]

\* a plausible slip: only a downward move that fails starts the lock countdown
moveCurrentPieceLockOnFailOnly(s, dx, dy) ==
    IF s.isGameOver
    THEN [game |-> s, returned |-> FALSE]
    ELSE IF canPlacePiece(s.grid, s.currentPiece, dx, dy)
         THEN LET s1 == [s EXCEPT !.currentPiece.x = s.currentPiece.x + dx,
                                  !.currentPiece.y = s.currentPiece.y + dy]
                  s2 == IF dx # 0 THEN resetLockTimer(s1) ELSE s1
              IN  [game |-> s2, returned |-> TRUE]
         ELSE IF dy > 0
              THEN [game |-> startLocking(s), returned |-> FALSE]
              ELSE [game |-> s, returned |-> FALSE]

\* TetrisGame.moveCurrentPiece: the game after the call and the value returned
moveCurrentPiece(s, dx, dy) ==
    IF s.isGameOver
    THEN [game |-> s, returned |-> FALSE]
    ELSE IF canPlacePiece(s.grid, s.currentPiece, dx, dy)
         THEN LET s1 == [s EXCEPT !.currentPiece.x = s.currentPiece.x + dx,
                                  !.currentPiece.y = s.currentPiece.y + dy]
                  s2 == IF dx # 0 THEN resetLockTimer(s1) ELSE s1
                  s3 == IF dy > 0 /\ ~canPlacePiece(s2.grid, s2.currentPiece, 0, 1)
                        THEN startLocking(s2)
                        ELSE s2
              IN  [game |-> s3, returned |-> TRUE]
         ELSE IF dy > 0
              THEN [game |-> startLocking(s), returned |-> FALSE]
              ELSE [game |-> s, returned |-> FALSE]

\* TetrisGame.movePiece
movePiece(s, dx, dy) == moveCurrentPiece(s, dx, dy).game

\* a plausible slip: the last kick that fits is taken, not the first
lastKick(g, piece, wallKicks, i) ==
    LET fits == {k \in i..Len(wallKicks) :
                    canPlacePiece(g, piece, wallKicks[k][1], wallKicks[k][2])}
    IN  IF fits = {} THEN 0 ELSE CHOOSE k \in fits : \A j \in fits : j <= k

\* a plausible slip: the first kick of the table is taken without the placement test
firstKickUntested(g, piece, wallKicks, i) ==
    IF i > Len(wallKicks) THEN 0 ELSE i

\* the index of the first kick of wallKicks, from the i-th on, at which piece fits, or 0
RECURSIVE firstKick(_, _, _, _)
firstKick(g, piece, wallKicks, i) ==
    IF i > Len(wallKicks)
    THEN 0
    ELSE IF canPlacePiece(g, piece, wallKicks[i][1], wallKicks[i][2])
         THEN i
         ELSE firstKick(g, piece, wallKicks, i + 1)

\* a plausible slip: a rotation that is rejected still gives a fresh lock window
rotatePieceResetting(s) ==
    IF s.isGameOver
    THEN s
    ELSE LET originalRotation == s.currentPiece.rotation
             piece == rotate(copy(s.currentPiece))
         IN  IF canPlacePiece(s.grid, piece, 0, 0)
             THEN resetLockTimer([s EXCEPT !.currentPiece = rotate(s.currentPiece)])
             ELSE LET wallKicks == getWallKickOffsets(piece, originalRotation, piece.rotation)
                      k == firstKick(s.grid, piece, wallKicks, 1)
                  IN  IF k = 0
                      THEN resetLockTimer(s)
                      ELSE LET turned == rotate(s.currentPiece)
                           IN  resetLockTimer(
                                   [s EXCEPT !.currentPiece =
                                       [turned EXCEPT !.x = turned.x + wallKicks[k][1],
                                                      !.y = turned.y + wallKicks[k][2]]])

\* TetrisGame.rotatePiece
rotatePiece(s) ==
    IF s.isGameOver
    THEN s
    ELSE LET originalRotation == s.currentPiece.rotation
             piece == rotate(copy(s.currentPiece))
         IN  IF canPlacePiece(s.grid, piece, 0, 0)
             THEN resetLockTimer([s EXCEPT !.currentPiece = rotate(s.currentPiece)])
             ELSE LET wallKicks == getWallKickOffsets(piece, originalRotation, piece.rotation)
                      k == firstKick(s.grid, piece, wallKicks, 1)
                  IN  IF k = 0
                      THEN s
                      ELSE LET turned == rotate(s.currentPiece)
                           IN  resetLockTimer(
                                   [s EXCEPT !.currentPiece =
                                       [turned EXCEPT !.x = turned.x + wallKicks[k][1],
                                                      !.y = turned.y + wallKicks[k][2]]])

\* a plausible slip: the point is given for the attempt, not for the move
softDropAlwaysScoring(s) ==
    LET moved == moveCurrentPiece(s, 0, 1)
    IN  [moved.game EXCEPT !.score = moved.game.score + 1]

\* TetrisGame.softDrop
softDrop(s) ==
    LET moved == moveCurrentPiece(s, 0, 1)
    IN  IF moved.returned
        THEN [moved.game EXCEPT !.score = moved.game.score + 1]
        ELSE moved.game

\* a plausible slip: the dropped piece waits for the lock delay like any resting piece
hardDropWaiting(s, type) ==
    IF s.isGameOver
    THEN s
    ELSE LET dropDistance == getDropPosition(s.grid, s.currentPiece) - s.currentPiece.y
             s1 == [s EXCEPT !.currentPiece.y = getDropPosition(s.grid, s.currentPiece)]
             s2 == [s1 EXCEPT !.score = s1.score + dropDistance * 2]
         IN  IF s2.isLocking /\ s2.lockTimer <= 0 THEN lockPiece(s2, type) ELSE startLocking(s2)

\* TetrisGame.hardDrop
hardDrop(s, type) ==
    IF s.isGameOver
    THEN s
    ELSE LET dropDistance == getDropPosition(s.grid, s.currentPiece) - s.currentPiece.y
             s1 == [s EXCEPT !.currentPiece.y = getDropPosition(s.grid, s.currentPiece)]
             s2 == [s1 EXCEPT !.score = s1.score + dropDistance * 2]
         IN  lockPiece(s2, type)

\* a plausible slip: the tick that ends the flash window goes on to the lock and drop code
updateThroughFlash(s, deltaTime, type) ==
    IF s.isGameOver
    THEN s
    ELSE LET f == [s EXCEPT !.lineFlashTimer =
                                IF s.lineFlashTimer > 0 THEN @ - deltaTime ELSE @]
         IN  IF f.lineFlashTimer > 0
             THEN f
             ELSE LET s0 == IF s.lineFlashTimer > 0
                            THEN [f EXCEPT !.linesToFlash = << >>]
                            ELSE f
                      s1 == IF s0.isLocking
                            THEN [s0 EXCEPT !.lockTimer = s0.lockTimer - deltaTime]
                            ELSE s0
                  IN  IF s1.isLocking /\ s1.lockTimer <= 0
                      THEN lockPiece(s1, type)
                      ELSE LET s2 == [s1 EXCEPT !.dropTimer = s1.dropTimer + deltaTime]
                           IN  IF s2.dropTimer >= s2.dropInterval
                               THEN moveCurrentPiece([s2 EXCEPT !.dropTimer = 0], 0, 1).game
                               ELSE s2

\* a plausible slip: the countdown runs out and nothing acts on it
updateWithoutLock(s, deltaTime, type) ==
    IF s.isGameOver
    THEN s
    ELSE IF s.lineFlashTimer > 0
         THEN LET s1 == [s EXCEPT !.lineFlashTimer = s.lineFlashTimer - deltaTime]
              IN  IF s1.lineFlashTimer <= 0
                  THEN [s1 EXCEPT !.linesToFlash = << >>]
                  ELSE s1
         ELSE LET s1 == IF s.isLocking
                        THEN [s EXCEPT !.lockTimer = Max(0, s.lockTimer - deltaTime)]
                        ELSE s
                  s2 == [s1 EXCEPT !.dropTimer = s1.dropTimer + deltaTime]
              IN  IF s2.dropTimer >= s2.dropInterval
                  THEN moveCurrentPiece([s2 EXCEPT !.dropTimer = 0], 0, 1).game
                  ELSE s2

\* TetrisGame.update
update(s, deltaTime, type) ==
    IF s.isGameOver
    THEN s
    ELSE IF s.lineFlashTimer > 0
         THEN LET s1 == [s EXCEPT !.lineFlashTimer = s.lineFlashTimer - deltaTime]
              IN  IF s1.lineFlashTimer <= 0
                  THEN [s1 EXCEPT !.linesToFlash = << >>]
                  ELSE s1
         ELSE LET s1 == IF s.isLocking
                        THEN [s EXCEPT !.lockTimer = s.lockTimer - deltaTime]
                        ELSE s
              IN  IF s1.isLocking /\ s1.lockTimer <= 0
                  THEN lockPiece(s1, type)
                  ELSE LET s2 == [s1 EXCEPT !.dropTimer = s1.dropTimer + deltaTime]
                       IN  IF s2.dropTimer >= s2.dropInterval
                           THEN moveCurrentPiece([s2 EXCEPT !.dropTimer = 0], 0, 1).game
                           ELSE s2

\* TetrisGame.gameLoop
gameLoop(s, type) ==
    IF ~s.isRunning \/ s.isPaused
    THEN s
    ELSE LET currentTime == s.browser.now
             deltaTime == currentTime - s.lastTime
         IN  requestAnimationFrame(update([s EXCEPT !.lastTime = currentTime],
                                          deltaTime, type))

\* a plausible slip: the line-flash timer is left running over a restart
restartKeepingFlash(s, type1, type2) ==
    LET s1 == [s EXCEPT !.isRunning = FALSE, !.isPaused = FALSE, !.isGameOver = FALSE,
                        !.grid = EmptyGrid, !.linesToFlash = << >>,
                        !.score = 0, !.lines = 0, !.level = 1, !.combo = 0,
                        !.dropTimer = 0, !.lockTimer = 0, !.isLocking = FALSE]
        s2 == [s1 EXCEPT !.dropInterval = getLevelDropInterval(s1.level)]
    IN  inputReset(spawnNewPiece(generateNextPiece(s2, type1), type2))

\* TetrisGame.restart, type1 and type2 being the random types drawn
restart(s, type1, type2) ==
    LET s1 == [s EXCEPT !.isRunning = FALSE, !.isPaused = FALSE, !.isGameOver = FALSE,
                        !.grid = EmptyGrid, !.linesToFlash = << >>,
                        !.score = 0, !.lines = 0, !.level = 1, !.combo = 0,
                        !.dropTimer = 0, !.lockTimer = 0, !.isLocking = FALSE,
                        !.lineFlashTimer = 0]
        s2 == [s1 EXCEPT !.dropInterval = getLevelDropInterval(s1.level)]
    IN  inputReset(spawnNewPiece(generateNextPiece(s2, type1), type2))

\* TetrisGame.start
start(s, type1, type2) ==
    IF s.isGameOver
    THEN restart(s, type1, type2)
    ELSE IF ~s.isRunning
         THEN gameLoop([s EXCEPT !.isRunning = TRUE, !.isPaused = FALSE,
                                 !.lastTime = s.browser.now], type1)
         ELSE s

\* a plausible slip: the time reference is not taken anew on resume
togglePauseStaleTime(s, type) ==
    IF ~s.isRunning
    THEN s
    ELSE LET s1 == [s EXCEPT !.isPaused = ~s.isPaused]
         IN  IF ~s1.isPaused THEN gameLoop(s1, type) ELSE s1

\* TetrisGame.togglePause
togglePause(s, type) ==
    IF ~s.isRunning
    THEN s
    ELSE LET s1 == [s EXCEPT !.isPaused = ~s.isPaused]
         IN  IF ~s1.isPaused
             THEN gameLoop([s1 EXCEPT !.lastTime = s1.browser.now], type)
             ELSE s1

\* TetrisGame.destroy
destroy(s) ==
    inputDestroy(IF s.animationId # NULL THEN cancelAnimationFrame(s) ELSE s)

-----------------------------------------------------------------------------
(* js/input.js *)

\* InputHandler.handleKeyAction
handleKeyAction(s, key, type1, type2) ==
    IF ~s.isRunning /\ key # "Space" /\ key # "KeyR"
    THEN s
    ELSE CASE key = "ArrowLeft" -> movePiece(s, -1, 0)
           [] key = "ArrowRight" -> movePiece(s, 1, 0)
           [] key = "ArrowDown" -> softDrop(s)
           [] key = "ArrowUp" -> rotatePiece(s)
           [] key = "Space" -> IF s.isRunning
                               THEN hardDrop(s, type1)
                               ELSE IF s.isGameOver
                                    THEN restart(s, type1, type2)
                                    ELSE start(s, type1, type2)
           [] key = "KeyP" -> togglePause(s, type1)
           [] key = "KeyR" -> restart(s, type1, type2)
           [] OTHER -> s

\* the keys handleKeyDown sets up a repeat for
MoveKeys == {"ArrowLeft", "ArrowRight", "ArrowDown"}

\* InputHandler.handleKeyDown
handleKeyDown(s, key, type1, type2) ==
    IF key \in s.input.keysPressed
    THEN s
    ELSE LET s1 == handleKeyAction([s EXCEPT !.input.keysPressed = @ \cup {key}],
                                   key, type1, type2)
         IN  IF key \in MoveKeys
             THEN [s1 EXCEPT
                      !.input.keyDelayTimers = MapSet(@, key, s1.browser.nextTimerId),
                      !.browser = setTimeout(@, key)]
             ELSE s1

\* the callback handleKeyDown gives to setTimeout for key
delayCallback(s, key) ==
    [s EXCEPT !.input.keyRepeatTimers = MapSet(@, key, s.browser.nextTimerId),
              !.browser = setInterval(@, key)]

\* the callback the delay callback gives to setInterval for key
repeatCallback(s, key) ==
    IF key \in s.input.keysPressed
    THEN handleKeyAction(s, key, PIECE_TYPES[1], PIECE_TYPES[1])
    ELSE s

-----------------------------------------------------------------------------
(* The state machine *)

\* the TetrisGame, with its board, as the record the methods work on
State ==
    [ grid |-> grid, linesToFlash |-> linesToFlash,
      currentPiece |-> currentPiece, nextPiece |-> nextPiece,
      isRunning |-> isRunning, isPaused |-> isPaused, isGameOver |-> isGameOver,
      score |-> score, lines |-> lines, level |-> level, combo |-> combo,
      dropTimer |-> dropTimer, dropInterval |-> dropInterval,
      lockTimer |-> lockTimer, isLocking |-> isLocking,
      lineFlashTimer |-> lineFlashTimer, pendingFrames |-> pendingFrames,
      lastTime |-> lastTime, animationId |-> animationId,
      input |-> input, browser |-> browser ]

StateIs(s) ==
    /\ grid = s.grid
    /\ linesToFlash = s.linesToFlash
    /\ currentPiece = s.currentPiece
    /\ nextPiece = s.nextPiece
    /\ isRunning = s.isRunning
    /\ isPaused = s.isPaused
    /\ isGameOver = s.isGameOver
    /\ score = s.score
    /\ lines = s.lines
    /\ level = s.level
    /\ combo = s.combo
    /\ dropTimer = s.dropTimer
    /\ dropInterval = s.dropInterval
    /\ lockTimer = s.lockTimer
    /\ isLocking = s.isLocking
    /\ lineFlashTimer = s.lineFlashTimer
    /\ pendingFrames = s.pendingFrames
    /\ lastTime = s.lastTime
    /\ animationId = s.animationId
    /\ input = s.input
    /\ browser = s.browser

NextStateIs(s) ==
    /\ grid' = s.grid
    /\ linesToFlash' = s.linesToFlash
    /\ currentPiece' = s.currentPiece
    /\ nextPiece' = s.nextPiece
    /\ isRunning' = s.isRunning
    /\ isPaused' = s.isPaused
    /\ isGameOver' = s.isGameOver
    /\ score' = s.score
    /\ lines' = s.lines
    /\ level' = s.level
    /\ combo' = s.combo
    /\ dropTimer' = s.dropTimer
    /\ dropInterval' = s.dropInterval
    /\ lockTimer' = s.lockTimer
    /\ isLocking' = s.isLocking
    /\ lineFlashTimer' = s.lineFlashTimer
    /\ pendingFrames' = s.pendingFrames
    /\ lastTime' = s.lastTime
    /\ animationId' = s.animationId
    /\ input' = s.input
    /\ browser' = s.browser

\* the TetrisGame constructor (and the GameBoard constructor in it), type1 and type2 being
\* the random types drawn
Constructed(type1, type2) ==
    LET s0 == [ grid |-> EmptyGrid, linesToFlash |-> << >>,
                currentPiece |-> NULL, nextPiece |-> NULL,
                isRunning |-> FALSE, isPaused |-> FALSE, isGameOver |-> FALSE,
                score |-> 0, lines |-> 0, level |-> 1, combo |-> 0,
                dropTimer |-> 0, dropInterval |-> getLevelDropInterval(1),
                lockTimer |-> 0, isLocking |-> FALSE,
                lineFlashTimer |-> 0, pendingFrames |-> 0,
                lastTime |-> 0, animationId |-> NULL,
                input |-> InputHandler, browser |-> setupEventListeners(PageLoaded) ]
    IN  spawnNewPiece(generateNextPiece(s0, type1), type2)

-----------------------------------------------------------------------------
(* Sessions in progress.  Besides the state the constructor leaves, a behaviour may    *)
(* start from a session that play has already brought somewhere: a stack on the board, *)
(* lines cleared, the piece on its way down.  Every stack below is solid under its top *)
(* cells, so a piece placed anywhere free above it got there from the spawn position   *)
(* by moves, rotations and drops.                                                      *)

\* the colour of the stack's cells in row y (any piece colour can be anywhere)
stackColor(y) == PIECES[PIECE_TYPES[(y % Len(PIECE_TYPES)) + 1]].color

\* the grid whose bottom Len(gaps) rows are occupied except, in the i-th of them from the
\* top, the columns gaps[i]
Stack(gaps) ==
    [y \in 0..(Height - 1) |->
        IF y < Height - Len(gaps)
        THEN EmptyRow
        ELSE [x \in 0..(Width - 1) |->
                 IF x \in gaps[y - (Height - Len(gaps)) + 1] THEN NULL ELSE stackColor(y)]]

\* a piece of the type after n calls of rotate(), at (x, y)
RECURSIVE Turned(_, _, _, _)
Turned(type, n, x, y) ==
    IF n = 0 THEN Piece(type, x, y) ELSE rotate(Turned(type, n - 1, x, y))

\* a running session: board g, pieces cur and next, and the counters of sess; the last
\* frame callback has just run and requested the next one, no key is down
Session(g, cur, next, sess) ==
    [ grid |-> g, linesToFlash |-> << >>,
      currentPiece |-> cur, nextPiece |-> next,
      isRunning |-> TRUE, isPaused |-> FALSE, isGameOver |-> FALSE,
      score |-> sess.score, lines |-> sess.lines, level |-> sess.level, combo |-> sess.combo,
      dropTimer |-> 0, dropInterval |-> getLevelDropInterval(sess.level),
      lockTimer |-> 0, isLocking |-> FALSE,
      lineFlashTimer |-> 0, pendingFrames |-> 1,
      lastTime |-> PlayTime, animationId |-> "queued",
      input |-> InputHandler,
      browser |-> [setupEventListeners(PageLoaded) EXCEPT !.now = PlayTime] ]

\* four rows complete but for the rightmost column
WellGrid == Stack(<< {9}, {9}, {9}, {9} >>)

\* two rows complete but for the four columns under the spawn position of the I piece
SlotGrid == Stack(<< {3, 4, 5, 6}, {3, 4, 5, 6} >>)

\* an uneven stack: a pit of two columns at the left wall, a step, a pit at the right wall
StepGrid == Stack(<< {0, 1, 2, 3, 4, 5, 8, 9}, {0, 1, 4, 5, 8, 9}, {0, 1, 5, 9}, {0, 9} >>)

\* the counters of sessions in progress: six single clears; nine, the last one by the
\* latest lock; twenty lines (eighteen singles, then a double by the latest lock); a long
\* session two lines short of level 11, where 48 - (level - 1) * 5 goes below 1
Counters ==
    << [lines |-> 6, level |-> 1, combo |-> 0, score |-> 240],
       [lines |-> 9, level |-> 1, combo |-> 1, score |-> 360],
       [lines |-> 20, level |-> 3, combo |-> 1, score |-> 1240],
       [lines |-> 98, level |-> 10, combo |-> 0, score |-> 30000] >>

\* the pieces of every type and rotation state at the columns xs and rows ys that are
\* free on g
PiecesOn(g, xs, ys) ==
    {p \in {Turned(PIECE_TYPES[t], n, x, y) :
                t \in 1..Len(PIECE_TYPES), n \in 0..3, x \in xs, y \in ys} :
        canPlacePiece(g, p, 0, 0)}

\* an I piece upright over the well, at any of the counters
WellSessions ==
    {Session(WellGrid, Turned("I", 1, 7, Height - 5), NewPiece("T"), Counters[i]) :
        i \in 1..Len(Counters)}

\* an I piece at its spawn position over the slot, another I piece next
SlotSessions ==
    {Session(SlotGrid, NewPiece("I"), NewPiece("I"), Counters[i]) : i \in 1..2}

\* any piece low over the uneven stack, or low over the floor of an empty board
LowSessions ==
    {Session(StepGrid, p, NewPiece("O"), Counters[1]) :
        p \in PiecesOn(StepGrid, (-2)..(Width - 2), 14..16)}
    \cup
    {Session(EmptyGrid, p, NewPiece("O"),
             [lines |-> 0, level |-> 1, combo |-> 0, score |-> 0]) :
        p \in PiecesOn(EmptyGrid, (-2)..(Width - 2), 17..18)}

\* n rows with the leftmost column free, or none when n < 0
RECURSIVE Filler(_)
Filler(n) == IF n <= 0 THEN << >> ELSE Append(Filler(n - 1), {0})

\* a stack up to row 2, the leftmost column free
HighGrid == Stack(Filler(Height - 2))

\* a piece moved sideways in its spawn row over the high stack, an O or an I piece next
TallSessions ==
    {Session(HighGrid, Piece(PIECE_TYPES[t], x, 0), NewPiece(next), Counters[1]) :
        t \in {t \in 1..Len(PIECE_TYPES) :
                   PIECES[PIECE_TYPES[t]].spawn.y = 0},
        x \in {x \in (-1)..(Width - 3) :
                   \A t \in 1..Len(PIECE_TYPES) :
                       canPlacePiece(HighGrid, Piece(PIECE_TYPES[t], x, 0), 0, 0)},
        next \in {"O", "I"}}

\* a session paused PausedFor ago, the frame callback that was queued has come and gone: a
\* T piece on its way down with part of the drop interval gone, or an I piece lying in
\* the well with part of the lock delay gone
PausedFor == 5000 * TimeScale

PausedSessions ==
    {[Session(g, p, NewPiece("O"), Counters[1])
         EXCEPT !.isPaused = TRUE, !.pendingFrames = 0, !.animationId = "stale",
                !.dropTimer = 200 * TimeScale,
                !.isLocking = ~canPlacePiece(g, p, 0, 1),
                !.lockTimer = IF canPlacePiece(g, p, 0, 1) THEN 0 ELSE 300 * TimeScale,
                !.browser.now = PlayTime + PausedFor] :
        g \in {StepGrid}, p \in {Piece("T", 3, 10), Turned("I", 1, -2, Height - 4)}}

\* a session with a move key held down since before the delay ran out, or since after
HeldSessions ==
    LET s == Session(EmptyGrid, Piece("T", 3, 10), NewPiece("O"), Counters[1])
    IN  {[s EXCEPT !.input.keysPressed = {key},
                   !.input.keyDelayTimers = MapSet(EmptyMap, key, 1),
                   !.browser = [setTimeout(s.browser, key) EXCEPT !.held = {key}]] :
            key \in {"ArrowLeft"}}
        \cup
        {[s EXCEPT !.input.keysPressed = {key},
                   !.input.keyDelayTimers = MapSet(EmptyMap, key, 1),
                   !.input.keyRepeatTimers = MapSet(EmptyMap, key, 2),
                   !.browser = [setInterval([s.browser EXCEPT !.nextTimerId = 2], key)
                                    EXCEPT !.held = {key}]] :
            key \in {"ArrowLeft", "ArrowDown"}}

InitStates ==
    {Constructed(t1, t2) : t1 \in RandomTypes, t2 \in RandomTypes}
    \cup WellSessions \cup SlotSessions \cup LowSessions
    \cup TallSessions \cup PausedSessions \cup HeldSessions

Init ==
    /\ \E s \in InitStates : StateIs(s)
    /\ destroyed = FALSE
    /\ last = [op |-> "init", arg |-> 0, fired |-> FALSE, pre |-> State]
    /\ steps = 0

\* the times that pass before a frame callback runs
DeltaTimes == {200 * TimeScale, 800 * TimeScale}

Keys == {"ArrowLeft", "ArrowRight", "ArrowDown", "ArrowUp", "Space", "KeyP", "KeyR"}

\* one operation: the game becomes s; fired tells whether a callback reached the game
Do(op, arg, fired, s) ==
    /\ NextStateIs(s)
    /\ last' = [op |-> op, arg |-> arg, fired |-> fired, pre |-> State]
    /\ steps' = steps + 1
    /\ UNCHANGED destroyed

\* the random types a call can draw: none of movePiece, softDrop and rotatePiece draws one
FirstDraws(key) ==
    IF key \in {"Space", "KeyP", "KeyR"} THEN RandomTypes ELSE {PIECE_TYPES[1]}

SecondDraws(key) ==
    IF key \in {"Space", "KeyR"} THEN RandomTypes ELSE {PIECE_TYPES[1]}

\* the document dispatches an event of the type to the listener registered by
\* setupEventListeners
Listening(type, method) ==
    [type |-> type, fn |-> bind(method, "setupEventListeners")] \in browser.listeners

\* a keydown event, of a key going down or of a held key repeated by the system
KeyDown(key) ==
    /\ steps < MaxSteps
    /\ Listening("keydown", "handleKeyDown")
    /\ \E s \in {handleKeyDown([State EXCEPT !.browser.held = @ \cup {key}],
                               key, type1, type2) :
                     type1 \in FirstDraws(key), type2 \in SecondDraws(key)} :
           Do("key", key, key \notin input.keysPressed, s)

\* a keyup event: handleKeyUp calls nothing of the game, and is not counted in steps
KeyUp(key) ==
    /\ steps < MaxSteps
    /\ key \in browser.held
    /\ Listening("keyup", "handleKeyUp")
    /\ NextStateIs(handleKeyUp([State EXCEPT !.browser.held = @ \ {key}], key))
    /\ last' = [op |-> "keyup", arg |-> key, fired |-> FALSE, pre |-> State]
    /\ UNCHANGED <<steps, destroyed>>

\* an armed timeout runs out: the timer is spent and its callback runs
DelayTimer ==
    /\ steps < MaxSteps
    /\ \E t \in {t \in browser.timers : t.kind = "timeout"} :
           Do("delay", t.key, FALSE,
              delayCallback([State EXCEPT !.browser.timers = @ \ {t}], t.key))

\* an armed interval comes round: its callback runs
RepeatTimer ==
    /\ steps < MaxSteps
    /\ \E t \in {t \in browser.timers : t.kind = "interval"} :
           Do("repeat", t.key, t.key \in input.keysPressed, repeatCallback(State, t.key))

\* the click handlers of setupUI
StartButton ==
    /\ steps < MaxSteps
    /\ \E s \in {start(State, type1, type2) :
                     type1 \in RandomTypes, type2 \in RandomTypes} :
           Do("startBtn", 0, TRUE, s)

PauseButton ==
    /\ steps < MaxSteps
    /\ \E s \in {togglePause(State, type) : type \in RandomTypes} :
           Do("pauseBtn", 0, TRUE, s)

ResetButton ==
    /\ steps < MaxSteps
    /\ \E s \in {restart(State, type1, type2) :
                     type1 \in RandomTypes, type2 \in RandomTypes} :
           Do("resetBtn", 0, TRUE, s)

\* a requested animation frame arrives after deltaTime: the callbacks run in the order
\* they were requested, so the one animationId names runs when it is the only one
Frame ==
    /\ steps < MaxSteps
    /\ pendingFrames > 0
    /\ \E deltaTime \in DeltaTimes :
           \E s \in {gameLoop([State EXCEPT
                                  !.pendingFrames = pendingFrames - 1,
                                  !.animationId =
                                      IF pendingFrames = 1 /\ animationId = "queued"
                                      THEN "stale"
                                      ELSE animationId,
                                  !.browser.now = @ + deltaTime],
                              type) : type \in RandomTypes} :
               Do("frame", deltaTime, TRUE, s)

\* the page is unloaded: GameManager.destroy calls game.destroy()
Destroy ==
    /\ steps < MaxSteps
    /\ ~destroyed
    /\ NextStateIs(destroy(State))
    /\ destroyed' = TRUE
    /\ last' = [op |-> "destroy", arg |-> 0, fired |-> TRUE, pre |-> State]
    /\ steps' = steps + 1

Next ==
    \/ \E key \in Keys : KeyDown(key)
    \/ \E key \in Keys : KeyUp(key)
    \/ DelayTimer
    \/ RepeatTimer
    \/ StartButton
    \/ PauseButton
    \/ ResetButton
    \/ Frame
    \/ Destroy

Spec == Init /\ [][Next]_vars

-----------------------------------------------------------------------------
(* Piece.rotate as a function: SpecPiece draws a piece of any type and applies rotate()   *)
(* to it; last.pre is the piece the count last.arg of calls starts from, and any piece    *)
(* reached may be taken as a new starting piece, so that every rotation state is one.     *)

\* the parts of the state the pure-function specifications leave alone
Idle == Constructed(PIECE_TYPES[1], PIECE_TYPES[1])

InitPiece ==
    /\ \E t \in 1..Len(PIECE_TYPES) :
           StateIs([Idle EXCEPT !.currentPiece = NewPiece(PIECE_TYPES[t])])
    /\ destroyed = FALSE
    /\ last = [op |-> "rotate", arg |-> 0, pre |-> currentPiece]
    /\ steps = 0

PieceRotate ==
    /\ last.arg < MaxTurns
    /\ currentPiece' = rotate(currentPiece)
    /\ last' = [last EXCEPT !.arg = last.arg + 1]
    /\ UNCHANGED <<grid, linesToFlash, nextPiece, isRunning, isPaused, isGameOver,
                   score, lines, level, combo, dropTimer, dropInterval, lockTimer,
                   isLocking, lineFlashTimer, pendingFrames, lastTime,
                   animationId, input, browser, destroyed, steps>>

PieceRestart ==
    /\ last.arg > 0
    /\ last.arg < MaxTurns
    /\ last' = [op |-> "rotate", arg |-> 0, pre |-> currentPiece]
    /\ UNCHANGED <<grid, linesToFlash, currentPiece, nextPiece, isRunning, isPaused,
                   isGameOver, score, lines, level, combo, dropTimer, dropInterval,
                   lockTimer, isLocking, lineFlashTimer, pendingFrames, lastTime,
                   animationId, input, browser, destroyed, steps>>

NextPiece ==
    \/ PieceRotate
    \/ PieceRestart

SpecPiece == InitPiece /\ [][NextPiece]_vars

-----------------------------------------------------------------------------
(* GameBoard.canPlacePiece and GameBoard.clearLines as functions: SpecBoard draws a board *)
(* and a piece and calls them; last holds the call, its arguments, the board and piece    *)
(* before it and the value returned.                                                      *)

\* the kinds of a stack row: 1 complete, 2 the leftmost column free, 3 the rightmost
\* column free, 4 the four middle columns free
RowKinds == << {}, {0}, {Width - 1}, {3, 4, 5, 6} >>

\* the sequences of n row kinds
RECURSIVE KindSeqs(_)
KindSeqs(n) ==
    IF n = 0
    THEN {<< >>}
    ELSE {Append(q, RowKinds[k]) : q \in KindSeqs(n - 1), k \in 1..Len(RowKinds)}

\* the rows a piece completes lie within the four rows it spans
WithinOnePiece(g) ==
    \A y1 \in DOMAIN g, y2 \in DOMAIN g :
        (rowComplete(g, y1) /\ rowComplete(g, y2)) => Abs(y1 - y2) < ShapeSize

\* the boards drawn: the bottom MaxStackRows rows of every kind, under nothing or under
\* a stack that reaches the top row (row 0 of either kind 1 or kind 2)
BoardInputs ==
    {g \in {Stack(q) : q \in KindSeqs(MaxStackRows)}
           \cup {Stack(<<top>> \o Filler(Height - MaxStackRows - 1) \o q) :
                    top \in {RowKinds[1], RowKinds[2]}, q \in KindSeqs(MaxStackRows)} :
        WithinOnePiece(g)}

\* the pieces drawn: every type and rotation state, at the walls and in the middle, above
\* the top row, over the stack and in it
PieceInputs ==
    {Turned(PIECE_TYPES[t], n, x, y) :
        t \in 1..Len(PIECE_TYPES), n \in 0..3,
        x \in {-2, -1, 3, Width - 3, Width - 2},
        y \in {-2, Height - MaxStackRows - 4, Height - MaxStackRows - 2, Height - 3}}

\* the boards the pieces are tried on: empty, low stacks, and a stack up to row 1
PieceBoards ==
    {EmptyGrid, StepGrid, Stack(<< {0}, {Width - 1}, {3, 4, 5, 6} >>),
     Stack(Filler(Height - 1))}

InitBoard ==
    /\ \/ \E g \in BoardInputs :
              StateIs([Idle EXCEPT !.grid = g, !.currentPiece = NewPiece("T")])
       \/ \E g \in PieceBoards, p \in PieceInputs :
              StateIs([Idle EXCEPT !.grid = g, !.currentPiece = p])
    /\ last = [op |-> "init", arg |-> <<0, 0>>, returned |-> 0,
               pre |-> [grid |-> grid, linesToFlash |-> linesToFlash]]
    /\ destroyed = FALSE
    /\ steps = 0

\* board.canPlacePiece(currentPiece, offsetX, offsetY)
BoardCanPlace ==
    /\ steps < MaxCalls
    /\ \E offsetX \in {-1, 0, 1}, offsetY \in {-2, 0, 1} :
           last' = [op |-> "canPlacePiece", arg |-> <<offsetX, offsetY>>,
                    returned |-> canPlacePiece(grid, currentPiece, offsetX, offsetY),
                    pre |-> [grid |-> grid, linesToFlash |-> linesToFlash]]
    /\ steps' = steps + 1
    /\ UNCHANGED <<grid, linesToFlash, currentPiece, nextPiece, isRunning, isPaused,
                   isGameOver, score, lines, level, combo, dropTimer, dropInterval,
                   lockTimer, isLocking, lineFlashTimer, pendingFrames, lastTime,
                   animationId, input, browser, destroyed>>

\* board.clearLines()
BoardClearLines ==
    /\ steps < MaxCalls
    /\ LET after == clearLines([grid |-> grid, linesToFlash |-> linesToFlash])
       IN  /\ grid' = after.grid
           /\ linesToFlash' = after.linesToFlash
           /\ last' = [op |-> "clearLines", arg |-> <<0, 0>>, returned |-> after.returned,
                       pre |-> [grid |-> grid, linesToFlash |-> linesToFlash]]
    /\ steps' = steps + 1
    /\ UNCHANGED <<currentPiece, nextPiece, isRunning, isPaused, isGameOver, score, lines,
                   level, combo, dropTimer, dropInterval, lockTimer, isLocking,
                   lineFlashTimer, pendingFrames, lastTime,
                   animationId, input, browser, destroyed>>

\* board.getDropPosition(currentPiece): last.pre also holds the piece before the call
BoardDropPosition ==
    /\ steps < MaxCalls
    /\ last' = [op |-> "getDropPosition", arg |-> <<0, 0>>,
                returned |-> getDropPosition(grid, currentPiece),
                pre |-> [grid |-> grid, linesToFlash |-> linesToFlash,
                         piece |-> currentPiece]]
    /\ steps' = steps + 1
    /\ UNCHANGED <<grid, linesToFlash, currentPiece, nextPiece, isRunning, isPaused,
                   isGameOver, score, lines, level, combo, dropTimer, dropInterval,
                   lockTimer, isLocking, lineFlashTimer, pendingFrames, lastTime,
                   animationId, input, browser, destroyed>>

NextBoard ==
    \/ BoardCanPlace
    \/ BoardClearLines
    \/ BoardDropPosition

SpecBoard == InitBoard /\ [][NextBoard]_vars

-----------------------------------------------------------------------------
(* Play without input: SpecPlay starts from a running session and lets only the frame    *)
(* callbacks run, every requested frame being delivered in the end.  gameLoop reads the  *)
(* clock only as the difference to lastTime, so the clock's origin is moved along with   *)
(* every frame: the times of the state stay those of the session the play started from. *)

\* the rows free above the stack in the sessions SpecPlay starts from
MaxFreeRows == 4
\* in SpecPlay steps counts the frames delivered, modulo FrameClock
FrameClock == 2

\* the stack that pieces falling from the spawn position leave in the four middle columns,
\* with n rows free above it
Tower(n) ==
    [y \in 0..(Height - 1) |->
        IF y < n
        THEN EmptyRow
        ELSE [x \in 0..(Width - 1) |-> IF x \in 3..6 THEN stackColor(y) ELSE NULL]]

\* running sessions over the tower, at level 1 and at level 10
PlaySessions ==
    {Session(Tower(n), NewPiece(PIECE_TYPES[t1]), NewPiece(PIECE_TYPES[t2]), Counters[i]) :
        n \in 2..MaxFreeRows, t1 \in 1..Len(PIECE_TYPES), t2 \in 1..Len(PIECE_TYPES),
        i \in {1, Len(Counters)}}

InitPlay ==
    /\ \E s \in {s \in PlaySessions : canPlacePiece(s.grid, s.currentPiece, 0, 0)} :
           StateIs(s)
    /\ destroyed = FALSE
    /\ last = [op |-> "init", arg |-> 0, fired |-> FALSE, pre |-> State]
    /\ steps = 0

\* a requested frame arrives after deltaTime > 0 and its callback runs; a piece drawn is
\* of any type
Tick ==
    /\ pendingFrames > 0
    /\ \E deltaTime \in DeltaTimes :
           \E s \in {gameLoop([State EXCEPT
                                  !.pendingFrames = pendingFrames - 1,
                                  !.animationId =
                                      IF pendingFrames = 1 /\ animationId = "queued"
                                      THEN "stale"
                                      ELSE animationId,
                                  !.browser.now = @ + deltaTime],
                              type) : type \in AllTypes} :
               /\ NextStateIs([s EXCEPT !.browser.now = @ - deltaTime,
                                        !.lastTime = @ - deltaTime])
               /\ last' = [op |-> "frame", arg |-> deltaTime, fired |-> TRUE, pre |-> State]
    /\ steps' = (steps + 1) % FrameClock
    /\ UNCHANGED destroyed

NextPlay ==
    \/ Tick

\* what the delivery of a frame does to the count of frames: a step of SpecPlay is a Tick
\* step exactly when it is a Delivered step, and one is possible exactly when a frame is
\* pending
Delivered ==
    /\ pendingFrames > 0
    /\ steps' = (steps + 1) % FrameClock

\* the scheduler delivers every frame that was requested: requestAnimationFrame calls its
\* callback at the next repaint
SpecPlay == InitPlay /\ [][NextPlay]_vars /\ WF_steps(Delivered)

-----------------------------------------------------------------------------
(* What the claims are stated with: the cells of a piece and the rows of a grid as sets, *)
(* written from the claims' words and not from the loops of the code.                    *)

\* the local cells (x, y) set in a mask
MaskCells(shape) ==
    {c \in (0..(ShapeSize - 1)) \X (0..(ShapeSize - 1)) : shape[c[2]][c[1]] # 0}

\* the board cells (x, y) a piece covers
Cells(p) == {<<p.x + c[1], p.y + c[2]>> : c \in MaskCells(p.shape)}

\* C3: rotating an O piece leaves its occupancy mask unchanged: after one rotate() of an O
\* piece the set of occupied local cells is the set before the call.
C3_ORotateKeepsMask ==
    (last.op = "rotate" /\ last.arg = 1 /\ currentPiece.type = "O")
        => MaskCells(currentPiece.shape) = MaskCells(last.pre.shape)

\* C4: four rotate() calls bring a piece of any type, from any rotation state, back to the
\* mask and rotation state it started from (a fresh piece: the mask of PIECES, state 0),
\* and the rotation state is always one of 0..3.
C4_FullTurn ==
    /\ last.op = "rotate" => currentPiece.rotation \in 0..3
    /\ (last.op = "rotate" /\ last.arg = 4)
           => /\ currentPiece.shape = last.pre.shape
              /\ currentPiece.rotation = last.pre.rotation
              /\ currentPiece.x = last.pre.x /\ currentPiece.y = last.pre.y
              /\ last.pre = NewPiece(last.pre.type)
                     => /\ currentPiece.shape = PIECES[currentPiece.type].shape
                        /\ currentPiece.rotation = 0

\* a T piece taken in rotation state 2 has made its full turn, through masks that differ
\* from the one it started with
C4_Witness ==
    /\ last.op = "rotate" /\ last.arg = 4
    /\ currentPiece.type = "T" /\ last.pre.rotation = 2
    /\ currentPiece.shape # PIECES.T.shape
    /\ rotate(currentPiece).shape # currentPiece.shape

\* the rows of g in which every cell is occupied
CompleteRows(g) == {y \in 0..(Height - 1) : \A x \in 0..(Width - 1) : g[y][x] # NULL}

\* the piece p, moved by (dx, dy), is inside the walls, above the floor and on free cells
Fits(g, p, dx, dy) ==
    \A c \in Cells(p) :
        LET x == c[1] + dx
            y == c[2] + dy
        IN  /\ 0 <= x /\ x < Width
            /\ y < Height
            /\ y >= 0 => g[y][x] = NULL

\* C1: clearLines removes exactly the complete rows, puts one empty row on top for each,
\* keeps every other row's content and their order (a kept row moves down by the number
\* of complete rows below it), keeps 20 rows of 10 cells, returns the number removed
\* (0 and an unchanged grid when there is none) and leaves no complete row.
C1_ClearLines ==
    last.op = "clearLines" =>
        LET before == last.pre.grid
            removed == CompleteRows(before)
            n == Cardinality(removed)
        IN  /\ last.returned = n
            /\ DOMAIN grid = 0..(Height - 1)
            /\ \A y \in DOMAIN grid : DOMAIN grid[y] = 0..(Width - 1)
            /\ \A y \in 0..(n - 1) : \A x \in 0..(Width - 1) : grid[y][x] = NULL
            /\ \A y \in (0..(Height - 1)) \ removed :
                   grid[y + Cardinality({r \in removed : r > y})] = before[y]
            /\ n = 0 => grid = before
            /\ CompleteRows(grid) = {}

\* two complete rows that are not adjacent were removed, with an incomplete row between
\* them and one above them
C1_Witness ==
    /\ last.op = "clearLines"
    /\ last.returned = 2
    /\ \E y \in 1..(Height - 3) :
           /\ CompleteRows(last.pre.grid) = {y, y + 2}
           /\ last.pre.grid[y - 1] # EmptyRow
           /\ grid[y + 1] = last.pre.grid[y - 1]
           /\ grid[y + 2] = last.pre.grid[y + 1]

\* C2: canPlacePiece(piece, dx, dy) is true exactly when every cell of the piece, moved
\* by (dx, dy), has 0 <= x < width and y < height and, when y >= 0, is on an empty grid
\* cell; cells with y < 0 are never looked up in the grid.
C2_CanPlace ==
    last.op = "canPlacePiece" =>
        (last.returned <=> Fits(grid, currentPiece, last.arg[1], last.arg[2]))

\* a piece that is partly above the top row and partly over free cells of a board with a
\* stack is accepted, and the same call one row lower would be refused
C2_Witness ==
    /\ last.op = "canPlacePiece"
    /\ last.returned = TRUE
    /\ \E c \in Cells(currentPiece) : c[2] + last.arg[2] < 0
    /\ \E c \in Cells(currentPiece) : c[2] + last.arg[2] >= 0
    /\ grid # EmptyGrid
    /\ ~canPlacePiece(grid, currentPiece, last.arg[1], last.arg[2] + 1)

-----------------------------------------------------------------------------
(* The claims about the controller, stated on the operation last and the game before it *)

Pre == last.pre

\* the last operation dispatched the key to handleKeyAction, from a keydown event or
\* from the repeat timer
KeyOp(key) == last.op \in {"key", "repeat"} /\ last.arg = key /\ last.fired

\* the smallest number of a nonempty set of numbers
Least(S) == CHOOSE i \in S : \A j \in S : i <= j

\* the rows a piece on g can fall: it fits at every row down to that one and not below
Landing(g, p) ==
    Least({d \in 0..Height : ~Fits(g, p, 0, d + 1)})

\* the grid with the cells of p that are on the board in the colour of p
Written(g, p) ==
    [y \in 0..(Height - 1) |->
        [x \in 0..(Width - 1) |-> IF <<x, y>> \in Cells(p) THEN p.color ELSE g[y][x]]]

\* the grid without its complete rows, as many empty rows on top
Collapsed(g) ==
    LET removed == CompleteRows(g)
        n == Cardinality(removed)
        \* the row that ends at y: the kept row with as many complete rows below it as
        \* it has moved down
        origin(y) == CHOOSE r \in (0..(Height - 1)) \ removed :
                         r + Cardinality({c \in removed : c > r}) = y
    IN  [y \in 0..(Height - 1) |-> IF y < n THEN EmptyRow ELSE g[origin(y)]]

\* the points of a clear of n lines at level lvl, the combo counter being c after it;
\* none when no line is cleared
LinePoints(n, lvl, c) ==
    IF n = 0
    THEN 0
    ELSE (CASE n = 1 -> 40 [] n = 2 -> 100 [] n = 3 -> 300 [] OTHER -> 1200) * lvl
         + (IF c > 1 THEN 50 * c * lvl ELSE 0)

\* the last operation was a rotation command that reached rotatePiece
Rotated == KeyOp("ArrowUp") /\ Pre.isRunning /\ ~Pre.isGameOver

\* the last operation was a hard drop
HardDropped == KeyOp("Space") /\ Pre.isRunning /\ ~Pre.isGameOver

\* the last operation restarted the session
Restarted ==
    \/ last.op = "resetBtn"
    \/ KeyOp("KeyR")
    \/ (KeyOp("Space") \/ last.op = "startBtn") /\ Pre.isGameOver

\* the elapsed times of the update() calls of the last operation: a frame callback of a
\* running game, a start, a resume
Updates ==
    IF last.op = "frame"
    THEN IF Pre.isRunning /\ ~Pre.isPaused
         THEN {Pre.browser.now + last.arg - Pre.lastTime}
         ELSE {}
    ELSE IF (last.op = "startBtn" \/ KeyOp("Space")) /\ ~Pre.isRunning /\ ~Pre.isGameOver
         THEN {0}
         ELSE IF (last.op = "pauseBtn" \/ KeyOp("KeyP")) /\ Pre.isRunning /\ Pre.isPaused
              THEN {0}
              ELSE {}

\* the lock countdown ran out in an update() of the last operation
TimerLocked ==
    \E dt \in Updates :
        /\ ~Pre.isGameOver
        /\ Pre.lineFlashTimer <= 0
        /\ Pre.isLocking
        /\ Pre.lockTimer - dt <= 0

\* the rows the hard drop of the last operation took the piece down
DropRows == Landing(Pre.grid, Pre.currentPiece)

\* the pieces the last operation locked, where it locked them
Locked ==
    IF HardDropped
    THEN {[Pre.currentPiece EXCEPT !.y = Pre.currentPiece.y + DropRows]}
    ELSE IF TimerLocked THEN {Pre.currentPiece} ELSE {}

\* the number of lines the lock of q cleared
ClearedBy(q) == Cardinality(CompleteRows(Written(Pre.grid, q)))

\* the piece before the rotation command, turned
TurnedPiece == rotate(Pre.currentPiece)

\* the kicks of the transition of the rotation command
Kicks ==
    getWallKickOffsets(TurnedPiece, Pre.currentPiece.rotation,
                       (Pre.currentPiece.rotation + 1) % 4)

\* the kicks at which the turned piece fits
FittingKicks ==
    {i \in 1..Len(Kicks) : Fits(Pre.grid, TurnedPiece, Kicks[i][1], Kicks[i][2])}

\* C5: when the rotated piece does not fit in place, the piece is committed at the first
\* kick offset of the transition, in table order, at which it fits: it has the rotated
\* mask, rotation state from + 1 mod 4 and the position moved by exactly that offset; for
\* a T piece turning 0 -> 1 the order is (-1,0), (-1,1), (0,-2), (-1,-2).
C5_FirstKick ==
    (Rotated /\ ~Fits(Pre.grid, TurnedPiece, 0, 0)) =>
        /\ (Pre.currentPiece.type = "T" /\ Pre.currentPiece.rotation = 0)
               => Kicks = << <<-1, 0>>, <<-1, 1>>, <<0, -2>>, <<-1, -2>> >>
        /\ FittingKicks # {} =>
               LET k == Kicks[Least(FittingKicks)]
               IN  /\ MaskCells(currentPiece.shape)
                          = {<<ShapeSize - 1 - c[2], c[1]>> :
                                 c \in MaskCells(Pre.currentPiece.shape)}
                   /\ currentPiece.rotation = (Pre.currentPiece.rotation + 1) % 4
                   /\ currentPiece.x = Pre.currentPiece.x + k[1]
                   /\ currentPiece.y = Pre.currentPiece.y + k[2]

\* a T piece turning 0 -> 1 did not fit in place nor at the first kick and was committed
\* at a later one, an even later one fitting too
C5_Witness ==
    /\ Rotated
    /\ ~Fits(Pre.grid, TurnedPiece, 0, 0)
    /\ Pre.currentPiece.type = "T" /\ Pre.currentPiece.rotation = 0
    /\ FittingKicks # {}
    /\ Least(FittingKicks) > 1
    /\ \E i \in FittingKicks : i > Least(FittingKicks)
    /\ currentPiece.x = Pre.currentPiece.x + Kicks[Least(FittingKicks)][1]
    /\ currentPiece.y = Pre.currentPiece.y + Kicks[Least(FittingKicks)][2]

\* C6: a rotation command whose rotated piece fits neither in place nor at any kick
\* offset leaves the piece (mask, rotation state, x, y), the board, the score, the locking
\* sub-state and the lock timer as they were.
C6_RejectedRotation ==
    (Rotated /\ ~Fits(Pre.grid, TurnedPiece, 0, 0) /\ FittingKicks = {}) =>
        /\ currentPiece = Pre.currentPiece
        /\ grid = Pre.grid /\ linesToFlash = Pre.linesToFlash
        /\ score = Pre.score
        /\ isLocking = Pre.isLocking
        /\ lockTimer = Pre.lockTimer
        /\ [State EXCEPT !.input = Pre.input, !.browser = Pre.browser] = Pre

\* an I piece lying on the floor, its lock countdown running, was refused a rotation
C6_Witness ==
    /\ Rotated
    /\ ~Fits(Pre.grid, TurnedPiece, 0, 0)
    /\ FittingKicks = {}
    /\ Pre.isLocking /\ Pre.lockTimer = lockDelay
    /\ Pre.currentPiece.type = "I"
    /\ isLocking /\ lockTimer = lockDelay

\* C7: a hard drop moves the piece to its landing row, adds 2 points for each row it went
\* down (besides the points of the lines it clears) and runs the lock sequence in the same
\* call, whatever the locking sub-state and the lock timer are: when it returns the piece
\* is on the board, the next piece is the current one and no lock countdown runs.
C7_HardDrop ==
    HardDropped =>
        LET landed == [Pre.currentPiece EXCEPT !.y = Pre.currentPiece.y + DropRows]
            n == ClearedBy(landed)
        IN  /\ Fits(Pre.grid, Pre.currentPiece, 0, 0) => Fits(Pre.grid, landed, 0, 0)
            /\ ~Fits(Pre.grid, landed, 0, 1)
            /\ score = Pre.score + 2 * DropRows + LinePoints(n, Pre.level, Pre.combo + 1)
            /\ grid = Collapsed(Written(Pre.grid, landed))
            /\ currentPiece = Pre.nextPiece
            /\ ~isLocking /\ lockTimer = 0

\* a piece with no lock countdown running was dropped several rows onto the stack, where
\* it cleared nothing: its cells are on the board and the score rose by twice the rows
C7_Witness ==
    /\ HardDropped
    /\ ~Pre.isLocking /\ Pre.lockTimer = 0
    /\ DropRows >= 2
    /\ score = Pre.score + 2 * DropRows
    /\ grid # Pre.grid
    /\ \A c \in Cells([Pre.currentPiece EXCEPT !.y = Pre.currentPiece.y + DropRows]) :
           grid[c[2]][c[1]] = Pre.currentPiece.color
    /\ currentPiece = Pre.nextPiece

\* C8: a lock that clears n lines, 1 <= n <= 4, adds to the score base[n] * level, level
\* being the one before the clear, plus 50 * combo * level when the combo counter after
\* its increment is above 1, and nothing else (a hard drop adds its 2 points per row
\* before the lock): level 1, one line, no combo gives 40; level 3, four lines, combo 2
\* gives 3900.
C8_LineScore ==
    \A q \in Locked :
        LET n == ClearedBy(q)
            dropPoints == IF HardDropped THEN 2 * DropRows ELSE 0
            gained == score - Pre.score - dropPoints
        IN  n >= 1 =>
                /\ n <= 4
                /\ gained = LinePoints(n, Pre.level, Pre.combo + 1)
                /\ combo = Pre.combo + 1
                /\ (n = 1 /\ Pre.level = 1 /\ combo = 1) => gained = 40
                /\ (n = 4 /\ Pre.level = 3 /\ combo = 2) => gained = 3900

\* at level 3, a lock that followed a clearing lock cleared four lines for 3900 points
C8_Witness ==
    /\ Locked # {}
    /\ \A q \in Locked : ClearedBy(q) = 4
    /\ Pre.level = 3 /\ Pre.combo = 1 /\ combo = 2
    /\ score - Pre.score - (IF HardDropped THEN 2 * DropRows ELSE 0) = 3900

\* C9: in every state level = floor(lines / 10) + 1 and the drop interval is that of
\* max(1, 48 - (level - 1) * 5) frames at 60 frames a second; the level never goes down
\* but by a restart; with 10 lines the level is 2 and the interval that of 43 frames.
C9_Level ==
    /\ level = (lines \div 10) + 1
    /\ dropInterval * 60 = Max(1, 48 - (level - 1) * 5) * 1000 * TimeScale
    /\ ~Restarted => level >= Pre.level
    /\ lines = 10 => (level = 2 /\ dropInterval * 60 = 43 * 1000 * TimeScale)

\* the line total has just reached 10, from level 1
C9_Witness ==
    /\ Locked # {}
    /\ Pre.lines < 10 /\ Pre.level = 1
    /\ lines = 10 /\ level = 2
    /\ dropInterval < Pre.dropInterval

\* C10: every lock that clears a line adds exactly 1 to the combo counter, every lock that
\* clears none sets it to 0, and nothing else changes it but a restart, which sets it to
\* 0: it counts the clearing locks in a row.
C10_Combo ==
    /\ \A q \in Locked : combo = (IF ClearedBy(q) > 0 THEN Pre.combo + 1 ELSE 0)
    /\ (Locked = {} /\ Restarted) => combo = 0
    /\ (Locked = {} /\ ~Restarted) => combo = Pre.combo

\* two locks in a row each cleared a line: the counter went from 0 to 1 to 2
C10_Witness ==
    /\ steps = 2
    /\ Locked # {}
    /\ \A q \in Locked : ClearedBy(q) = 1
    /\ Pre.combo = 1 /\ combo = 2
    /\ Pre.lines = 7 /\ lines = 8

\* row 0 of the grid has an occupied cell
TopRowOccupied(g) == \E x \in 0..(Width - 1) : g[0][x] # NULL

\* the pieces newly created at their spawn position
FreshPieces == {NewPiece(PIECE_TYPES[t]) : t \in 1..Len(PIECE_TYPES)}

\* C11: a lock writes the piece to the grid, then removes the complete rows, then makes
\* the next piece the current one and draws a new next piece; the game is over after it
\* if and only if, on the grid after the clear, row 0 has an occupied cell or the new
\* current piece does not fit at its spawn position, and otherwise isRunning, isPaused
\* and isGameOver are as before.
C11_LockSequence ==
    \A q \in Locked :
        LET over == TopRowOccupied(grid) \/ ~Fits(grid, currentPiece, 0, 0)
        IN  /\ grid = Collapsed(Written(Pre.grid, q))
            /\ currentPiece = Pre.nextPiece
            /\ nextPiece \in FreshPieces
            /\ isGameOver <=> over
            /\ isPaused = Pre.isPaused
            /\ isRunning = (Pre.isRunning /\ ~over)

\* a lock left row 0 empty and the game over: the new piece does not fit where it spawns
C11_Witness ==
    /\ Locked # {}
    /\ ~Pre.isGameOver /\ Pre.isRunning
    /\ ~TopRowOccupied(grid)
    /\ ~Fits(grid, currentPiece, 0, 0)
    /\ isGameOver /\ ~isRunning
    /\ currentPiece = Pre.nextPiece

\* the last operation called start(): the start button, or Space when the game is neither
\* running nor over
Started ==
    \/ last.op = "startBtn"
    \/ KeyOp("Space") /\ ~Pre.isRunning /\ ~Pre.isGameOver

\* C12: after start() is called with the game not yet started, or over, the game is
\* running (isRunning, not isPaused, not isGameOver) and a frame callback is requested.
C12_StartRuns ==
    (Started /\ (Pre.isGameOver \/ ~Pre.isRunning)) =>
        /\ isRunning /\ ~isPaused /\ ~isGameOver
        /\ pendingFrames > 0 /\ animationId = "queued"

\* C13: restart(), in whatever state it is called, leaves the grid all empty and the flash
\* record empty; score 0, lines 0, level 1, combo 0; the drop, lock and flash timers 0;
\* the locking sub-state off; the drop interval that of level 1 (48 frames); isRunning,
\* isPaused and isGameOver false; a current and a next piece at their spawn position in
\* rotation state 0.
C13_Restart ==
    Restarted =>
        /\ \A y \in 0..(Height - 1), x \in 0..(Width - 1) : grid[y][x] = NULL
        /\ Len(linesToFlash) = 0
        /\ score = 0 /\ lines = 0 /\ level = 1 /\ combo = 0
        /\ dropTimer = 0 /\ lockTimer = 0 /\ lineFlashTimer = 0
        /\ ~isLocking
        /\ dropInterval * 60 = 48 * 1000 * TimeScale
        /\ ~isRunning /\ ~isPaused /\ ~isGameOver
        /\ currentPiece \in FreshPieces
        /\ nextPiece \in FreshPieces

\* a session with lines cleared and points scored was restarted in its flash window
C13_Witness ==
    /\ Restarted
    /\ Pre.isRunning
    /\ Pre.lineFlashTimer > 0 /\ Len(Pre.linesToFlash) > 0
    /\ Pre.score > 0 /\ Pre.lines > 0 /\ Pre.grid # EmptyGrid
    /\ grid = EmptyGrid /\ score = 0 /\ lineFlashTimer = 0
    /\ ~isRunning

\* the game s has the grid, score, lines, level, combo, pieces and isRunning / isGameOver
\* flags of the game t
SameGame(s, t) ==
    /\ s.grid = t.grid
    /\ s.score = t.score /\ s.lines = t.lines /\ s.level = t.level /\ s.combo = t.combo
    /\ s.currentPiece = t.currentPiece /\ s.nextPiece = t.nextPiece
    /\ s.isRunning = t.isRunning /\ s.isGameOver = t.isGameOver

\* C14: a game that is over is not running, and stays as it is until it is restarted:
\* every operation but a restart (start() restarts), and every call of movePiece,
\* rotatePiece, softDrop, hardDrop, togglePause and update, leaves the grid, score, lines,
\* level, combo, current piece, next piece, isRunning and isGameOver unchanged.
C14_GameOverTerminal ==
    /\ isGameOver => ~isRunning
    /\ (Pre.isGameOver /\ ~Restarted) => SameGame(State, Pre)
    /\ isGameOver =>
           /\ \A dx \in {-1, 1} : SameGame(movePiece(State, dx, 0), State)
           /\ SameGame(movePiece(State, 0, 1), State)
           /\ SameGame(rotatePiece(State), State)
           /\ SameGame(softDrop(State), State)
           /\ \A dt \in DeltaTimes \cup {0}, t \in 1..Len(PIECE_TYPES) :
                  /\ SameGame(hardDrop(State, PIECE_TYPES[t]), State)
                  /\ SameGame(togglePause(State, PIECE_TYPES[t]), State)
                  /\ SameGame(update(State, dt, PIECE_TYPES[t]), State)

\* the frame callback that was queued when a lock ended the game has run: it requested
\* no other, and the game is as the lock left it
C14_Witness ==
    /\ Pre.isGameOver /\ ~Pre.isRunning
    /\ last.op = "frame"
    /\ Pre.pendingFrames = 1 /\ pendingFrames = 0
    /\ isGameOver
    /\ TopRowOccupied(grid)
    /\ SameGame(State, Pre)

\* the last operation was a keydown event or a turn of the repeat timer for a key that
\* moves, drops or rotates the piece
MoveCommand ==
    /\ last.op \in {"key", "repeat"}
    /\ last.arg \in {"ArrowLeft", "ArrowRight", "ArrowDown", "ArrowUp"}

\* C15: while the game is not running (not started, paused or over) the commands move
\* left, move right, soft drop and rotate, from a keydown event or from the repeat timer,
\* have no effect: the current piece, the grid, the score, the locking sub-state and the
\* lock timer are unchanged.
C15_IgnoredWhenNotRunning ==
    (MoveCommand /\ (~Pre.isRunning \/ Pre.isPaused)) =>
        /\ currentPiece = Pre.currentPiece
        /\ grid = Pre.grid
        /\ score = Pre.score
        /\ isLocking = Pre.isLocking /\ lockTimer = Pre.lockTimer

\* the elapsed times of the update() calls of the last operation that found the game not
\* over and no flash window open
Ticks == {dt \in Updates : ~Pre.isGameOver /\ Pre.lineFlashTimer <= 0}

\* C16: an update outside a flash window takes one of two branches.  With the piece in the
\* locking sub-state it only takes dt off the lock timer, and runs the lock sequence when
\* the timer is at or below 0: the drop timer is not accumulated and the piece is not
\* moved.  Otherwise it adds dt to the drop timer and, when the drop interval is reached,
\* sets it to 0 and tries one move down.
C16_OneBranch ==
    \A dt \in Ticks :
        IF Pre.isLocking
        THEN /\ dropTimer = Pre.dropTimer
             /\ Pre.lockTimer - dt > 0 =>
                    /\ lockTimer = Pre.lockTimer - dt
                    /\ isLocking
                    /\ currentPiece = Pre.currentPiece
        ELSE /\ lockTimer = (IF isLocking THEN lockDelay ELSE 0)
             /\ IF Pre.dropTimer + dt >= Pre.dropInterval
                THEN /\ dropTimer = 0
                     /\ currentPiece =
                            IF Fits(Pre.grid, Pre.currentPiece, 0, 1)
                            THEN [Pre.currentPiece EXCEPT !.y = @ + 1]
                            ELSE Pre.currentPiece
                ELSE /\ dropTimer = Pre.dropTimer + dt
                     /\ currentPiece = Pre.currentPiece

\* the elapsed times of the update() calls of the last operation that found the game not
\* over and a flash window open
FlashTicks == {dt \in Updates : ~Pre.isGameOver /\ Pre.lineFlashTimer > 0}

\* C17: in a flash window (flash timer above 0) an update only takes dt off the flash
\* timer: the lock timer, the drop timer and the piece are as before and no lock sequence
\* runs; the update that brings the timer to 0 or below empties the flash record of the
\* board, and nothing else.
C17_FlashWindow ==
    \A dt \in FlashTicks :
        /\ lineFlashTimer = Pre.lineFlashTimer - dt
        /\ linesToFlash = (IF lineFlashTimer <= 0 THEN << >> ELSE Pre.linesToFlash)
        /\ lockTimer = Pre.lockTimer /\ isLocking = Pre.isLocking
        /\ dropTimer = Pre.dropTimer
        /\ currentPiece = Pre.currentPiece /\ nextPiece = Pre.nextPiece
        /\ grid = Pre.grid
        /\ score = Pre.score /\ lines = Pre.lines /\ level = Pre.level
        /\ combo = Pre.combo /\ dropInterval = Pre.dropInterval
        /\ isGameOver = Pre.isGameOver /\ isRunning = Pre.isRunning

\* the frame callback that ends the flash window of a line clear: the flash record is
\* emptied, the drop timer stands still
C17_Witness ==
    /\ last.op = "frame"
    /\ FlashTicks # {}
    /\ Pre.lineFlashTimer = lineFlashDuration /\ Len(Pre.linesToFlash) > 0
    /\ lineFlashTimer <= 0 /\ Len(linesToFlash) = 0
    /\ dropTimer = Pre.dropTimer
    /\ currentPiece = Pre.currentPiece

\* the last operation called togglePause() on a paused game
Resumed ==
    /\ last.op = "pauseBtn" \/ KeyOp("KeyP")
    /\ Pre.isRunning /\ Pre.isPaused

\* C18: a frame callback that finds the game paused changes none of the drop timer, lock
\* timer, flash timer, piece and board, and requests no further frame; the update run by
\* the resume is fed the time since the resume itself, which is 0, and the first frame
\* callback after it the time since the resume, never the time spent paused.
C18_PauseStopsTicks ==
    /\ (last.op = "frame" /\ Pre.isPaused) =>
           /\ dropTimer = Pre.dropTimer /\ lockTimer = Pre.lockTimer
           /\ lineFlashTimer = Pre.lineFlashTimer
           /\ currentPiece = Pre.currentPiece /\ isLocking = Pre.isLocking
           /\ grid = Pre.grid /\ linesToFlash = Pre.linesToFlash
           /\ pendingFrames = Pre.pendingFrames - 1
           /\ isPaused
    /\ Resumed =>
           /\ ~isPaused
           /\ lastTime = browser.now
           /\ lineFlashTimer = Pre.lineFlashTimer
           /\ lockTimer = Pre.lockTimer /\ isLocking = Pre.isLocking
           /\ Pre.dropTimer < Pre.dropInterval =>
                  (dropTimer = Pre.dropTimer /\ currentPiece = Pre.currentPiece)
    /\ (isRunning /\ ~isPaused) => lastTime = browser.now
    /\ (last.op = "frame" /\ Pre.isRunning /\ ~Pre.isPaused /\ ~Pre.isGameOver) =>
           /\ Pre.lineFlashTimer > 0 => lineFlashTimer = Pre.lineFlashTimer - last.arg
           /\ (Pre.lineFlashTimer <= 0 /\ Pre.isLocking /\ Pre.lockTimer > last.arg) =>
                  lockTimer = Pre.lockTimer - last.arg
           /\ (Pre.lineFlashTimer <= 0 /\ ~Pre.isLocking
                   /\ Pre.dropTimer + last.arg < Pre.dropInterval) =>
                  dropTimer = Pre.dropTimer + last.arg

\* a game paused for PausedFor with 300 ms of a lock delay left was resumed, and the
\* first frame callback, 200 ms later, left 100 ms of it
C18_Witness ==
    /\ steps = 2
    /\ last.op = "frame" /\ last.arg = 200 * TimeScale
    /\ Pre.isRunning /\ ~Pre.isPaused
    /\ Pre.browser.now = PlayTime + PausedFor
    /\ Pre.isLocking /\ Pre.lockTimer = 300 * TimeScale
    /\ isLocking /\ lockTimer = 100 * TimeScale
    /\ currentPiece = Pre.currentPiece

\* C19: the action of a key fires on the keydown event that finds the key up; a keydown
\* event for a key that is held down since (the repeat of the system) fires nothing, for
\* every key; and no timer is left armed for a key that is up, so that the repeat timer
\* dispatches a key only while it is held.
C19_HeldKeyFiresOnce ==
    /\ (last.op = "key" /\ last.arg \in Pre.browser.held) => ~last.fired
    /\ \A t \in browser.timers : t.key \in browser.held
    /\ (last.op = "repeat" /\ last.fired) => last.arg \in Pre.browser.held

\* C20: once destroy() has returned nothing reaches the game any more: no frame callback
\* runs an update, no delay or repeat timer of the session is left armed or dispatches a
\* key, and no keydown event is dispatched to a game operation by the session's listeners.
AfterDestroy == destroyed /\ last.op # "destroy"

C20_NothingAfterDestroy ==
    /\ AfterDestroy =>
           /\ last.op = "frame" => Updates = {}
           /\ last.op \in {"key", "repeat"} => ~last.fired
    /\ last.op = "destroy" =>
           /\ browser.timers = {}
           /\ (isRunning /\ ~isPaused) => pendingFrames = 0

-----------------------------------------------------------------------------
(* The drop position, the lock countdown and the life of the current piece *)

\* C21: for a piece that fits where it is, getDropPosition returns piece.y + d, d being
\* the greatest d >= 0 such that the piece fits k rows lower for every k in 1..d: the
\* piece fits at the row returned and not one row lower; the call changes neither the
\* piece nor the grid.
C21_DropPosition ==
    (last.op = "getDropPosition" /\ Fits(last.pre.grid, last.pre.piece, 0, 0)) =>
        LET d == last.returned - last.pre.piece.y
        IN  /\ d >= 0
            /\ \A k \in 1..d : Fits(last.pre.grid, last.pre.piece, 0, k)
            /\ Fits(last.pre.grid, last.pre.piece, 0, d)
            /\ ~Fits(last.pre.grid, last.pre.piece, 0, d + 1)
            /\ grid = last.pre.grid
            /\ currentPiece = last.pre.piece

\* a piece that starts partly above the top row comes down into a pit of the uneven
\* stack: it lands above the floor, lower than it would on the stack's top
C21_Witness ==
    /\ last.op = "getDropPosition"
    /\ Fits(grid, currentPiece, 0, 0)
    /\ \E c \in Cells(currentPiece) : c[2] < 0
    /\ grid = StepGrid
    /\ last.returned > Height - 4 - ShapeSize
    /\ \E c \in Cells(currentPiece) :
           /\ c[2] + last.returned - currentPiece.y < Height - 1
           /\ grid[c[2] + last.returned - currentPiece.y + 1][c[1]] # NULL

\* the last operation was a soft drop command that reached moveCurrentPiece
SoftDropped == KeyOp("ArrowDown") /\ Pre.isRunning /\ ~Pre.isGameOver

\* an update() of the last operation came to the drop interval and tried to move the
\* piece down
GravityTried ==
    \E dt \in Updates :
        /\ ~Pre.isGameOver
        /\ Pre.lineFlashTimer <= 0
        /\ ~(Pre.isLocking /\ Pre.lockTimer - dt <= 0)
        /\ Pre.dropTimer + dt >= Pre.dropInterval

\* the piece before the last operation, one row lower
Lowered == [Pre.currentPiece EXCEPT !.y = @ + 1]

\* C22: a downward move attempt, by gravity or by soft drop, leaves the piece locking
\* exactly when the piece cannot move one row further down after it: the move succeeded
\* and the row below is blocked, or the move failed.  A piece that was not locking gets a
\* lock timer of 500 ms; a successful move that leaves room below starts no locking.
C22_DownMoveLocks ==
    (SoftDropped \/ GravityTried) =>
        /\ currentPiece = IF Fits(Pre.grid, Pre.currentPiece, 0, 1)
                          THEN Lowered
                          ELSE Pre.currentPiece
        /\ grid = Pre.grid
        /\ isLocking <=> ~Fits(grid, currentPiece, 0, 1)
        /\ ~Fits(Pre.grid, Pre.currentPiece, 0, 1) => isLocking
        /\ (~Pre.isLocking /\ isLocking) => lockTimer = 500 * TimeScale
        /\ (~Pre.isLocking /\ currentPiece = Lowered /\ Fits(grid, currentPiece, 0, 1))
               => (~isLocking /\ lockTimer = Pre.lockTimer)

\* a soft drop took a piece that was not locking one row down onto the uneven stack, and
\* the lock countdown started
C22_Witness ==
    /\ SoftDropped
    /\ ~Pre.isLocking
    /\ Pre.grid = StepGrid
    /\ currentPiece = Lowered
    /\ ~Fits(grid, currentPiece, 0, 1)
    /\ isLocking /\ lockTimer = lockDelay

\* the last operation was a horizontal move command that reached moveCurrentPiece, and
\* the columns it asked for
SideMoved == (KeyOp("ArrowLeft") \/ KeyOp("ArrowRight")) /\ Pre.isRunning /\ ~Pre.isGameOver

SideStep == IF last.arg = "ArrowLeft" THEN -1 ELSE 1

\* C23: a horizontal move that succeeds, and a rotation that succeeds in place or by a
\* kick, each stop the lock countdown: the piece is no longer locking and the lock timer
\* is 0.  A horizontal move that fails leaves the piece where it is, and the locking
\* sub-state and the lock timer as they were.
C23_MoveCancelsLock ==
    /\ SideMoved =>
           IF Fits(Pre.grid, Pre.currentPiece, SideStep, 0)
           THEN /\ currentPiece = [Pre.currentPiece EXCEPT !.x = @ + SideStep]
                /\ ~isLocking /\ lockTimer = 0
           ELSE /\ currentPiece = Pre.currentPiece
                /\ isLocking = Pre.isLocking /\ lockTimer = Pre.lockTimer
    /\ (Rotated /\ (Fits(Pre.grid, TurnedPiece, 0, 0) \/ FittingKicks # {}))
           => (~isLocking /\ lockTimer = 0 /\ currentPiece # Pre.currentPiece)

\* a piece resting on the stack with its countdown running was moved sideways along the
\* stack: it rests again, and is not locking
C23_Witness ==
    /\ SideMoved
    /\ Pre.isLocking /\ Pre.lockTimer > 0
    /\ currentPiece.x # Pre.currentPiece.x
    /\ ~Fits(grid, currentPiece, 0, 1)
    /\ ~isLocking /\ lockTimer = 0

\* C24: softDrop tries one move of the current piece one row down: the piece is one row
\* lower and the score one higher when it fitted there, and piece and score are as before
\* when it did not; softDrop never runs the lock sequence: the board, the next piece and
\* the line counters are unchanged and the game does not end.
C24_SoftDrop ==
    SoftDropped =>
        /\ IF Fits(Pre.grid, Pre.currentPiece, 0, 1)
           THEN currentPiece = Lowered /\ score = Pre.score + 1
           ELSE currentPiece = Pre.currentPiece /\ score = Pre.score
        /\ grid = Pre.grid /\ linesToFlash = Pre.linesToFlash
        /\ nextPiece = Pre.nextPiece
        /\ lines = Pre.lines /\ level = Pre.level /\ combo = Pre.combo
        /\ lineFlashTimer = Pre.lineFlashTimer
        /\ isGameOver = Pre.isGameOver /\ isRunning = Pre.isRunning

\* a soft drop on a piece that rests with its countdown running: no move, no point, and
\* the piece is not locked
C24_Witness ==
    /\ SoftDropped
    /\ ~Fits(Pre.grid, Pre.currentPiece, 0, 1)
    /\ Pre.isLocking /\ Pre.lockTimer > 0
    /\ currentPiece = Pre.currentPiece /\ score = Pre.score
    /\ grid = Pre.grid /\ isLocking

\* C25: at most one frame callback of the game loop is pending at any time, whatever the
\* sequence of start, togglePause, restart, gameOver and frame callbacks: a pause and
\* resume, or a restart and start, before the queued callback has run leaves no second
\* tick loop.
C25_OneFramePending == pendingFrames <= 1

\* C26: a paused session is a running one: isPaused implies isRunning in every state
\* reached by start, togglePause, restart, input commands and ticks; the flags never
\* show a game that is paused and over.
C26_PausedIsRunning == isPaused => (isRunning /\ ~isGameOver)

\* C27: in every state where the game is not over the current piece fits where it is: no
\* sequence of moves, rotations with kicks, soft drops, hard drops, ticks, locks and
\* restarts leaves it on an occupied cell, outside the walls or below the bottom row.
C27_PieceFits ==
    /\ ~isGameOver => Fits(grid, currentPiece, 0, 0)
    /\ last.op = "init" =>
           \A t \in 1..Len(PIECE_TYPES) :
               canPlacePiece(EmptyGrid, NewPiece(PIECE_TYPES[t]), 0, 0)

\* a rotation that did not fit in place, nor at the first kick of its table, was committed
\* at a later kick, next to the stack: the piece fits there
C27_Witness ==
    /\ Rotated
    /\ Pre.grid # EmptyGrid
    /\ ~Fits(Pre.grid, TurnedPiece, 0, 0)
    /\ ~Fits(Pre.grid, TurnedPiece, Kicks[1][1], Kicks[1][2])
    /\ FittingKicks # {}
    /\ currentPiece.rotation # Pre.currentPiece.rotation
    /\ ~isGameOver /\ Fits(grid, currentPiece, 0, 0)

\* C28: while the locking sub-state is on, the current piece does not fit one row lower;
\* so every piece the lock sequence writes to the board, when the lock timer runs out or
\* by a hard drop, rests on the floor or on an occupied cell when it is written: no piece
\* is locked while it could still fall.
C28_LockingPieceRests ==
    /\ isLocking => ~Fits(grid, currentPiece, 0, 1)
    /\ \A q \in Locked :
           /\ Fits(Pre.grid, q, 0, 0)
           /\ ~Fits(Pre.grid, q, 0, 1)

\* the lock timer ran out on a piece resting on the stack, above the floor, and the piece
\* was written to the board
C28_Witness ==
    /\ TimerLocked
    /\ \A q \in Locked :
           /\ \A c \in Cells(q) : c[2] < Height - 1
           /\ \E c \in Cells(q) : Pre.grid[c[2] + 1][c[1]] # NULL
           /\ \A c \in Cells(q) : grid[c[2]][c[1]] = q.color
    /\ grid # Pre.grid

\* the last operation ran an update() outside a flash window on a game that is not over
LockTicks ==
    {dt \in Updates : ~Pre.isGameOver /\ Pre.lineFlashTimer <= 0}

\* C29: once the lock countdown runs, a soft drop, a horizontal move that fails and a
\* rotation that is rejected leave the lock timer as it is, and a tick outside a flash
\* window takes exactly its elapsed time off it, a gravity attempt in the same tick
\* included; the tick that brings the timer to 0 or below locks the piece.  So, with no
\* successful horizontal move or rotation, the piece is locked by the first tick at which
\* the tick time elapsed since the countdown started reaches 500 ms.
C29_LockTimerNeverExtended ==
    (Pre.isLocking /\ ~Pre.isGameOver) =>
        /\ (\/ SoftDropped
            \/ SideMoved /\ ~Fits(Pre.grid, Pre.currentPiece, SideStep, 0)
            \/ Rotated /\ ~Fits(Pre.grid, TurnedPiece, 0, 0) /\ FittingKicks = {})
               => (isLocking /\ lockTimer = Pre.lockTimer /\ currentPiece = Pre.currentPiece)
        /\ \A dt \in LockTicks :
               IF Pre.lockTimer - dt <= 0
               THEN /\ grid = Collapsed(Written(Pre.grid, Pre.currentPiece))
                    /\ currentPiece = Pre.nextPiece
                    /\ ~isLocking
               ELSE /\ isLocking /\ lockTimer = Pre.lockTimer - dt
                    /\ currentPiece = Pre.currentPiece /\ grid = Pre.grid
        /\ Pre.lockTimer <= 500 * TimeScale

\* a tick that came to the drop interval while the countdown was running: the gravity
\* attempt failed and the lock timer went on from where it was
C29_Witness ==
    /\ Pre.isLocking /\ ~Pre.isGameOver
    /\ GravityTried
    /\ LockTicks # {}
    /\ isLocking
    /\ lockTimer < Pre.lockTimer
    /\ lockTimer > 0

\* C30: a running game that keeps getting ticks with positive elapsed time, and no input,
\* locks every current piece in the end and reaches game over in the end, whatever piece
\* types are drawn.
C30_PlayEnds ==
    /\ [](isRunning => <>TimerLocked)
    /\ <>isGameOver

\* the lock timer ran out on a piece that came down by gravity alone, the lock ended the
\* game, and more than one piece was locked on the way
C30_Witness ==
    /\ last.op = "frame"
    /\ TimerLocked
    /\ isGameOver /\ ~isRunning
    /\ \A n \in 0..MaxFreeRows : Pre.grid # Tower(n)

====
